---- MODULE Spec2Model ----
(***************************************************************************)
(* Model of the quiz chain driver solve_quiz (src/app/quiz_solver.py) and  *)
(* of the control skeleton of one attempt, solve_single_quiz: the network  *)
(* operations it issues, in order, the places where it returns an error    *)
(* result and the places where an exception leaves it uncaught.            *)
(*                                                                         *)
(* Time is in seconds.  The clock `now` only moves while a network         *)
(* operation is in progress; local computation takes no time.              *)
(*                                                                         *)
(* Spec and FairSpec follow the chain.  AttemptSpec follows the data of    *)
(* one call of solve_single_quiz from the submit URL extraction to the     *)
(* POST: the reply of the reasoning service is parsed as ask_llm_for_answer*)
(* (src/app/llm_interface.py) parses it, and the answer is cleaned,        *)
(* converted, replaced by the fallback and submitted as steps 7 to 10 do.  *)
(* HandlerSpec follows one request through handle_quiz (src/app/main.py),  *)
(* LlmSpec one call of ask_llm_for_answer through its retry loop, and      *)
(* BundleSpec the sub-fetches of steps 4 to 6 of solve_single_quiz and the *)
(* choice of step 7.  RateSpec and ConcurrentRateSpec follow one and two   *)
(* callers through rate_limit_wait (src/app/llm_interface.py).  Each       *)
(* specification holds the variables of the others at their idle values.   *)
(***************************************************************************)
EXTENDS Integers, Sequences, FiniteSets, TLC

(* ---- program constants ------------------------------------------------ *)
timeout_seconds == 170
max_retries_per_question == 2
RetryThreshold == 30
start_time == 0

(* ---- bounds of the model ---------------------------------------------- *)
MaxUrl == 2
ShortOp == 20
LongOp == 75

(* the most attempts that can start within the budget when each lasts at   *)
(* least its three mandatory operations (render, analysis, resolution);    *)
(* caps the length of history in BeginAttempt                              *)
MaxAttempts == (timeout_seconds \div (3 * ShortOp)) + 1

Urls == 1..MaxUrl
NoUrl == 0
start_url == 1

(* email and secret of the request, as main.py passes them to solve_quiz *)
email == "student@example.com"
secret == "s3cret"
OpDurations == {ShortOp, LongOp}
Reasons == {"none", "wrong"}
Errors == {"none", "no_submit_url", "payload_too_large", "submission_failed"}

VARIABLES pc, current_url, attempts_on_current, history, now, elapsed,
          time_left, result, status, answer_found, late_op, sent

(* the data of one call of solve_single_quiz: the page (page_text,         *)
(* page_tags, found_url, mentions_submit), what the collaborators gave     *)
(* (expected_answer_type, scraped, reply), the length of email, secret and *)
(* url together (identity_len), and the locals of the function             *)
VARIABLES a_pc, page_text, page_tags, found_url, mentions_submit, expected_answer_type,
          scraped, reply, identity_len, submit_url, answer_value, accepted,
          llm_calls, posted, payload, a_result

cvars == <<pc, current_url, attempts_on_current, history, now, elapsed,
           time_left, result, status, answer_found, late_op, sent>>

avars == <<a_pc, page_text, page_tags, found_url, mentions_submit, expected_answer_type,
           scraped, reply, identity_len, submit_url, answer_value, accepted,
           llm_calls, posted, payload, a_result>>

(* one request to POST /quiz: the request (body, req_secret), the secret    *)
(* the server holds, and what handle_quiz did                              *)
VARIABLES h_pc, body, req_secret, server_secret, http_status, solve_invoked

(* one call of ask_llm_for_answer: whether AIPIPE_TOKEN is set, the loop   *)
(* index, the requests issued so far, the last response and the sleep that *)
(* followed it, the body of the accepted response, the value returned, and *)
(* the lengths of context_text and of its part in the prompt               *)
VARIABLES l_pc, has_token, l_attempt, requests, last_response, last_delay,
          l_body, l_result, context_len, prompt_context

(* steps 4 to 6 of one call of solve_single_quiz: the numbers of other     *)
(* URLs, of those that look like an API endpoint and of download links on  *)
(* the page, what task_info asks for, the loop index, the entries          *)
(* gathered, the sub-resources whose fetch failed, the URL whose page gave *)
(* the pattern match (0: none), which of the page's matches in the order  *)
(* of key terms and patterns became answer_value (0: answer_value is None) *)
VARIABLES b_pc, n_urls, n_api, n_links, needs_scrape, needs_api, b_idx,
          scraped_data, dataframes, api_data, failed, matched, match_taken

(* the rate limiter of llm_interface.py: the callers of rate_limit_wait,    *)
(* the clock time.time() reads, the module globals, and for each caller    *)
(* its position in the function, its local now and the time at which its   *)
(* sleep ends; the calls returned so far                                   *)
VARIABLES callers, r_clock, last_request_time, request_count,
          request_window_start, r_pc, r_now, r_wake, r_admitted

hvars == <<h_pc, body, req_secret, server_secret, http_status, solve_invoked>>

lvars == <<l_pc, has_token, l_attempt, requests, last_response, last_delay,
           l_body, l_result, context_len, prompt_context>>

bvars == <<b_pc, n_urls, n_api, n_links, needs_scrape, needs_api, b_idx,
           scraped_data, dataframes, api_data, failed, matched, match_taken>>

rvars == <<callers, r_clock, last_request_time, request_count,
           request_window_start, r_pc, r_now, r_wake, r_admitted>>

xvars == <<hvars, lvars, bvars, rvars>>

vars == <<cvars, avars, xvars>>

(* Python values: a record [t, v], t the type and v the content; a str is  *)
(* a sequence of one-character strings, a float is kept as its literal     *)
PyNone == [t |-> "none", v |-> <<>>]
PyStr(s) == [t |-> "str", v |-> s]
PyInt(n) == [t |-> "int", v |-> n]
PyFloat(s) == [t |-> "float", v |-> s]
PyBool(b) == [t |-> "bool", v |-> b]
PyList(l) == [t |-> "list", v |-> l]
PyDict(a) == [t |-> "dict", v |-> a]

(* no call of solve_single_quiz is being followed in detail *)
NoReply == [ok |-> FALSE, content |-> <<>>]
NoPayload == [answer |-> PyNone, size |-> 0]
NoAttemptResult == [correct |-> FALSE, has_url |-> FALSE, error |-> "none"]
AttemptIdle ==
    /\ a_pc = "idle"
    /\ page_text = <<>>
    /\ page_tags = <<>>
    /\ found_url = FALSE
    /\ mentions_submit = FALSE
    /\ expected_answer_type = "string"
    /\ scraped = PyNone
    /\ reply = NoReply
    /\ identity_len = 0
    /\ submit_url = "none"
    /\ answer_value = PyNone
    /\ accepted = PyNone
    /\ llm_calls = 0
    /\ posted = FALSE
    /\ payload = NoPayload
    /\ a_result = NoAttemptResult

(* no request, no call of ask_llm_for_answer, no bundle is being followed *)
NoHeader == [present |-> FALSE, value |-> <<>>]
NoResponse == [kind |-> "none", retry_after |-> NoHeader]
NoBody == [shape |-> "none", content |-> <<>>]
NoLlmResult == [answer |-> PyNone, error |-> FALSE]
NoContext == [len |-> 0, marker |-> FALSE]
HandlerIdle ==
    /\ h_pc = "idle"
    /\ body = "ok"
    /\ req_secret = ""
    /\ server_secret = ""
    /\ http_status = 0
    /\ solve_invoked = FALSE
LlmIdle ==
    /\ l_pc = "idle"
    /\ has_token = FALSE
    /\ l_attempt = 0
    /\ requests = 0
    /\ last_response = NoResponse
    /\ last_delay = 0
    /\ l_body = NoBody
    /\ l_result = NoLlmResult
    /\ context_len = 0
    /\ prompt_context = NoContext
BundleIdle ==
    /\ b_pc = "idle"
    /\ n_urls = 0
    /\ n_api = 0
    /\ n_links = 0
    /\ needs_scrape = FALSE
    /\ needs_api = FALSE
    /\ b_idx = 0
    /\ scraped_data = <<>>
    /\ dataframes = <<>>
    /\ api_data = <<>>
    /\ failed = {}
    /\ matched = 0
    /\ match_taken = 0
RateIdle ==
    /\ callers = {}
    /\ r_clock = 0
    /\ last_request_time = 0
    /\ request_count = 0
    /\ request_window_start = 0
    /\ r_pc = <<>>
    /\ r_now = <<>>
    /\ r_wake = <<>>
    /\ r_admitted = 0

NoResult == [correct |-> FALSE, url |-> NoUrl, reason |-> "none", error |-> "none"]

(* result dict of an attempt that ends before or in the POST with an error *)
ErrorResult(e) == [correct |-> FALSE, url |-> NoUrl, reason |-> "none", error |-> e]

(* result dict built from the grading endpoint's JSON answer *)
GradedResult(c, u, r) == [correct |-> c, url |-> u, reason |-> r, error |-> "none"]

Init ==
    /\ pc = "loop"
    /\ current_url = start_url
    /\ attempts_on_current = 0
    /\ history = <<>>
    /\ now = start_time
    /\ elapsed = 0
    /\ time_left = timeout_seconds
    /\ result = NoResult
    /\ status = "running"
    /\ answer_found = FALSE
    /\ late_op = FALSE
    /\ sent = <<>>
    /\ AttemptIdle
    /\ HandlerIdle
    /\ LlmIdle
    /\ BundleIdle
    /\ RateIdle

(* ---- helpers of solve_quiz -------------------------------------------- *)

(* if elapsed > timeout_seconds *)
TimedOutM(e) == e > timeout_seconds - RetryThreshold
TimedOut(e) == e > timeout_seconds

(* if result.get("correct") *)
AnswerCorrectM(r) == ~r.correct
AnswerCorrect(r) == r.correct

(* attempts_on_current < max_retries_per_question and time_left > 30 *)
CanRetryM(a, tl) == a <= max_retries_per_question /\ tl > RetryThreshold
CanRetry(a, tl) == a < max_retries_per_question /\ tl > RetryThreshold

(* the record appended to history after an attempt *)
RecordBeforeIncrement ==
    [url |-> current_url, attempt |-> attempts_on_current,
     correct |-> result.correct, reason |-> result.reason,
     error |-> result.error, elapsed_seconds |-> elapsed]
Record ==
    [url |-> current_url, attempt |-> attempts_on_current + 1,
     correct |-> result.correct, reason |-> result.reason,
     error |-> result.error, elapsed_seconds |-> elapsed]

(* elapsed = time.time() - start_time *)
ElapsedSinceLoopTop(t) == t - t
Elapsed(t) == t - start_time

(* a network operation starts now and lasts d seconds; late_op remembers   *)
(* whether any operation was started after start_time + timeout_seconds    *)
NetOp(d) ==
    /\ late_op' = (late_op \/ now > start_time + timeout_seconds)
    /\ now' = now + d
    /\ UNCHANGED <<sent, avars, xvars>>

(* quiz_url of the running call of solve_single_quiz: solve_quiz passes    *)
(* current_url                                                             *)
quiz_url_of_start == start_url
quiz_url == current_url

(* the payload of step 10 without its answer *)
SubmitPayload == [email |-> email, secret |-> secret, url |-> quiz_url]

(* requests.post(submit_url, json=payload): a network operation that puts  *)
(* the payload on the wire; sent lists the payloads posted so far          *)
PostOp(d) ==
    /\ late_op' = (late_op \/ now > start_time + timeout_seconds)
    /\ now' = now + d
    /\ sent' = Append(sent, SubmitPayload)
    /\ UNCHANGED <<avars, xvars>>

NoNetOp == UNCHANGED <<now, late_op, sent, avars, xvars>>

chain == <<current_url, attempts_on_current, history, elapsed, time_left, status>>

(* ---- solve_quiz: top of the while loop -------------------------------- *)

TimeoutReturn ==
    /\ pc = "loop"
    /\ TimedOut(Elapsed(now))
    /\ elapsed' = Elapsed(now)
    /\ status' = "timeout"
    /\ pc' = "done"
    /\ UNCHANGED <<current_url, attempts_on_current, history, time_left, result,
                   answer_found>>
    /\ NoNetOp

(* the call of solve_single_quiz: answer_value = None *)
BeginAttempt ==
    /\ pc = "loop"
    /\ ~TimedOut(Elapsed(now))
    /\ Len(history) < MaxAttempts
    /\ elapsed' = Elapsed(now)
    /\ time_left' = timeout_seconds - Elapsed(now)
    /\ answer_found' = FALSE
    /\ pc' = "render"
    /\ UNCHANGED <<current_url, attempts_on_current, history, result, status>>
    /\ NoNetOp

(* ---- solve_single_quiz ------------------------------------------------ *)

(* STEP 1: fetch_page_html_and_text(quiz_url); not inside any try *)
RenderPage ==
    /\ pc = "render"
    /\ \E d \in OpDurations : NetOp(d)
    /\ pc' = "analyze"
    /\ UNCHANGED chain
    /\ UNCHANGED result
    /\ UNCHANGED answer_found

RenderRaises ==
    /\ pc = "render"
    /\ \E d \in OpDurations : NetOp(d)
    /\ pc' = "raised"
    /\ UNCHANGED chain
    /\ UNCHANGED result
    /\ UNCHANGED answer_found

(* STEP 3: ask_llm_for_answer for the question analysis; a failure of the  *)
(* parse falls back to the default task_info                               *)
AnalyzeQuestion ==
    /\ pc = "analyze"
    /\ \E d \in OpDurations : NetOp(d)
    /\ pc' = "aux"
    /\ UNCHANGED chain
    /\ UNCHANGED result
    /\ UNCHANGED answer_found

(* STEP 3/4: the analysis answer is a string holding JSON that is not an   *)
(* object ("42", "[1]"): task_info.get raises AttributeError, uncaught     *)
AnalyzeRaises ==
    /\ pc = "analyze"
    /\ \E d \in OpDurations : NetOp(d)
    /\ pc' = "raised"
    /\ UNCHANGED chain
    /\ UNCHANGED result
    /\ UNCHANGED answer_found

(* STEPS 4-6: scrape / download / API call; every exception is caught and  *)
(* the loop continues; a scraped page may yield a pattern-matched answer   *)
AuxFetch ==
    /\ pc = "aux"
    /\ \E d \in OpDurations : NetOp(d)
    /\ \E found \in BOOLEAN : answer_found' = found
    /\ pc' = "resolve"
    /\ UNCHANGED chain
    /\ UNCHANGED result

(* STEPS 4-6 with nothing to fetch *)
AuxSkip ==
    /\ pc = "aux"
    /\ NoNetOp
    /\ pc' = "resolve"
    /\ UNCHANGED <<chain, result, answer_found>>

(* STEP 7: answer_value is None: ask_llm_for_answer with the full context; *)
(* the answer is a string, or absent (fallback of step 9 applies)          *)
ResolveAnswer ==
    /\ pc = "resolve"
    /\ ~answer_found
    /\ \E d \in OpDurations : NetOp(d)
    /\ pc' = "submit"
    /\ UNCHANGED chain
    /\ UNCHANGED result
    /\ UNCHANGED answer_found

(* STEP 7: the answer is a truthy non-string (42, true, a list):           *)
(* raw_answer.strip() raises AttributeError, caught nowhere                *)
ResolveRaises ==
    /\ pc = "resolve"
    /\ ~answer_found
    /\ \E d \in OpDurations : NetOp(d)
    /\ pc' = "raised"
    /\ UNCHANGED chain
    /\ UNCHANGED result
    /\ UNCHANGED answer_found

(* STEP 7 skipped: a scraped pattern match already set answer_value *)
ResolveSkip ==
    /\ pc = "resolve"
    /\ answer_found
    /\ NoNetOp
    /\ pc' = "submit"
    /\ UNCHANGED <<chain, result, answer_found>>

(* STEP 10: no submit URL, or payload above 1 MiB: error result, no POST *)
SubmitLocalError ==
    /\ pc = "submit"
    /\ NoNetOp
    /\ \E e \in {"no_submit_url", "payload_too_large"} : result' = ErrorResult(e)
    /\ pc' = "handle"
    /\ UNCHANGED chain
    /\ UNCHANGED answer_found

(* STEP 10: requests.post; HTTP error or any exception is caught *)
SubmitFails ==
    /\ pc = "submit"
    /\ \E d \in OpDurations : PostOp(d)
    /\ result' = ErrorResult("submission_failed")
    /\ pc' = "handle"
    /\ UNCHANGED chain
    /\ UNCHANGED answer_found

(* STEP 10: requests.post answered with the grading JSON *)
SubmitGraded ==
    /\ pc = "submit"
    /\ \E d \in OpDurations : PostOp(d)
    /\ \E c \in BOOLEAN, u \in Urls \cup {NoUrl}, r \in Reasons :
          result' = GradedResult(c, u, r)
    /\ pc' = "handle"
    /\ UNCHANGED chain
    /\ UNCHANGED answer_found

(* ---- solve_quiz: after the attempt ------------------------------------ *)

(* correct, next URL given: move to the next question *)
CorrectAdvance ==
    /\ pc = "handle"
    /\ AnswerCorrect(result)
    /\ result.url # NoUrl
    /\ history' = Append(history, Record)
    /\ current_url' = result.url
    /\ attempts_on_current' = 0
    /\ pc' = "loop"
    /\ UNCHANGED <<elapsed, time_left, result, status>>
    /\ NoNetOp
    /\ UNCHANGED answer_found

(* correct, no next URL: quiz completed *)
CorrectComplete ==
    /\ pc = "handle"
    /\ AnswerCorrect(result)
    /\ result.url = NoUrl
    /\ history' = Append(history, Record)
    /\ attempts_on_current' = attempts_on_current + 1
    /\ status' = "completed"
    /\ pc' = "done"
    /\ UNCHANGED <<current_url, elapsed, time_left, result>>
    /\ NoNetOp
    /\ UNCHANGED answer_found

(* wrong, next URL given, retries and time left: retry the same question *)
WrongNextRetry ==
    /\ pc = "handle"
    /\ ~AnswerCorrect(result)
    /\ result.url # NoUrl
    /\ CanRetry(attempts_on_current + 1, time_left)
    /\ history' = Append(history, Record)
    /\ attempts_on_current' = attempts_on_current + 1
    /\ pc' = "loop"
    /\ UNCHANGED <<current_url, elapsed, time_left, result, status>>
    /\ NoNetOp
    /\ UNCHANGED answer_found

(* wrong, next URL given, no retry: skip to the next question *)
WrongNextSkip ==
    /\ pc = "handle"
    /\ ~AnswerCorrect(result)
    /\ result.url # NoUrl
    /\ ~CanRetry(attempts_on_current + 1, time_left)
    /\ history' = Append(history, Record)
    /\ current_url' = result.url
    /\ attempts_on_current' = 0
    /\ pc' = "loop"
    /\ UNCHANGED <<elapsed, time_left, result, status>>
    /\ NoNetOp
    /\ UNCHANGED answer_found

(* wrong, no next URL, retries and time left: retry the same question *)
WrongRetry ==
    /\ pc = "handle"
    /\ ~AnswerCorrect(result)
    /\ result.url = NoUrl
    /\ CanRetry(attempts_on_current + 1, time_left)
    /\ history' = Append(history, Record)
    /\ attempts_on_current' = attempts_on_current + 1
    /\ pc' = "loop"
    /\ UNCHANGED <<current_url, elapsed, time_left, result, status>>
    /\ NoNetOp
    /\ UNCHANGED answer_found

(* wrong, no next URL, no retry: give up *)
WrongFail ==
    /\ pc = "handle"
    /\ ~AnswerCorrect(result)
    /\ result.url = NoUrl
    /\ ~CanRetry(attempts_on_current + 1, time_left)
    /\ history' = Append(history, Record)
    /\ attempts_on_current' = attempts_on_current + 1
    /\ status' = "failed"
    /\ pc' = "done"
    /\ UNCHANGED <<current_url, elapsed, time_left, result>>
    /\ NoNetOp
    /\ UNCHANGED answer_found

Next ==
    \/ TimeoutReturn
    \/ BeginAttempt
    \/ RenderPage
    \/ RenderRaises
    \/ AnalyzeQuestion
    \/ AnalyzeRaises
    \/ AuxFetch
    \/ AuxSkip
    \/ ResolveAnswer
    \/ ResolveRaises
    \/ ResolveSkip
    \/ SubmitLocalError
    \/ SubmitFails
    \/ SubmitGraded
    \/ CorrectAdvance
    \/ CorrectComplete
    \/ WrongNextRetry
    \/ WrongNextSkip
    \/ WrongRetry
    \/ WrongFail

Spec == Init /\ [][Next]_vars

TypeOK ==
    /\ pc \in {"loop", "render", "analyze", "aux", "resolve", "submit",
               "handle", "done", "raised"}
    /\ current_url \in Urls
    /\ attempts_on_current \in Nat
    /\ status \in {"running", "completed", "failed", "timeout"}
    /\ result.error \in Errors
(* ======================================================================= *)
(* Properties                                                              *)
(* ======================================================================= *)

Last == history[Len(history)]

(* remaining time now: global deadline minus the current time *)
RemainingNow == timeout_seconds - (now - start_time)

(* a step of solve_quiz that handles a wrong result carrying a next URL *)
WrongWithNext == pc = "handle" /\ ~result.correct /\ result.url # NoUrl

(* C1 (as stated): after a wrong result with a next URL the same question  *)
(* is not attempted again; the chain moves to the next URL at once.        *)
C1_FollowNextAtOnce ==
    [][WrongWithNext => current_url' = result.url /\ attempts_on_current' = 0]_vars

(* C1 (amended): after a wrong result with a next URL the same question is *)
(* attempted again exactly when fewer than 2 attempts have been made on it *)
(* and the time left measured before the attempt exceeds 30 s; otherwise   *)
(* the chain moves to the next URL with the attempt counter reset.         *)
C1_RetryThenFollow ==
    [][WrongWithNext =>
         IF attempts_on_current + 1 < 2 /\ time_left > 30
         THEN /\ current_url' = current_url
              /\ attempts_on_current' = attempts_on_current + 1
              /\ pc' = "loop"
         ELSE /\ current_url' = result.url
              /\ attempts_on_current' = 0
              /\ pc' = "loop"]_vars

(* a wrong answer with a next URL was followed by a retry of the question *)
C1_Witness ==
    /\ pc = "render"
    /\ attempts_on_current = 1
    /\ ~result.correct
    /\ result.url # NoUrl
    /\ result.url # current_url

(* C2: no question of the chain starts on a URL that an earlier record of  *)
(* the chain already used (first attempts never reuse a URL).              *)
C2_NoRevisit ==
    \A i, j \in 1..Len(history) :
        (i < j /\ history[j].attempt = 1) => history[i].url # history[j].url

(* C3: no network operation is started later than start_time + timeout.    *)
C3_NoLateNetworkOp == ~late_op

(* C4: solve_quiz never propagates an exception.                           *)
C4_NeverRaises == pc # "raised"

(* C5: every return carries a status in {completed, failed, timeout};      *)
(* completed only after a correct last attempt without next URL, failed    *)
(* only after a wrong last attempt without next URL, timeout only when the *)
(* elapsed time exceeded timeout_seconds.                                  *)
C5_StatusSound ==
    pc = "done" =>
        /\ status \in {"completed", "failed", "timeout"}
        /\ status = "completed" =>
              Len(history) > 0 /\ Last.correct /\ result.correct /\ result.url = NoUrl
        /\ status = "failed" =>
              Len(history) > 0 /\ ~Last.correct /\ ~result.correct /\ result.url = NoUrl
        /\ status = "timeout" => elapsed > 170

(* the three statuses are all returned *)
C5_Witness ==
    /\ pc = "done"
    /\ status = "timeout"
    /\ Len(history) = 2
    /\ history[1].correct
    /\ ~history[2].correct

(* C6: the attempts made on one question never exceed the ceiling of 2,    *)
(* whatever the remaining time.                                            *)
C6_AttemptCeiling ==
    /\ attempts_on_current <= 2
    /\ \A i \in 1..Len(history) : history[i].attempt <= 2

(* given up at the ceiling although plenty of time remained *)
C6_Witness ==
    /\ pc = "done"
    /\ status = "failed"
    /\ Len(history) = 2
    /\ Last.attempt = 2
    /\ RemainingNow > RetryThreshold

(* C7: a retry of the same question starts only if the remaining time at   *)
(* the moment of the retry decision exceeds the retry threshold.           *)
C7_RetryNeedsRemainingTime ==
    [][(pc = "loop" /\ pc' = "render" /\ attempts_on_current >= 1)
          => RemainingNow > RetryThreshold]_vars

(* C8: a failed attempt without next URL, retries still available, and     *)
(* remaining time below the threshold: no retry, status timeout, history   *)
(* holding all records so far.                                             *)
C8_LowTimeEndsInTimeout ==
    [][(/\ pc = "handle"
        /\ ~result.correct
        /\ result.url = NoUrl
        /\ attempts_on_current + 1 < max_retries_per_question
        /\ RemainingNow < RetryThreshold)
          => (/\ pc' = "done"
              /\ status' = "timeout"
              /\ history' = Append(history, Record))]_vars

(* C9: a correct answer is accepted: with a next URL the chain advances to *)
(* it with the attempt counter reset to 0, without one it returns          *)
(* completed; the question is not attempted again.                         *)
C9_CorrectAccepted ==
    [][(pc = "handle" /\ result.correct) =>
         IF result.url # NoUrl
         THEN /\ current_url' = result.url
              /\ attempts_on_current' = 0
              /\ pc' = "loop"
              /\ status' = status
         ELSE /\ pc' = "done"
              /\ status' = "completed"]_vars

(* a question answered correctly on its second attempt, chain advanced *)
C9_Witness ==
    /\ pc = "loop"
    /\ result.correct
    /\ result.url # NoUrl
    /\ attempts_on_current = 0
    /\ Len(history) = 2
    /\ Last.attempt = 2
    /\ current_url = result.url
(* ---- termination ------------------------------------------------------ *)

(* the steps of solve_quiz are taken as long as one is possible: every     *)
(* awaited operation returns                                               *)
FairSpec == Init /\ [][Next]_vars /\ WF_vars(Next)

(* C10: if every attempt returns (none raises), solve_quiz eventually      *)
(* returns, whatever the grading endpoint answers and however long the     *)
(* operations last.                                                        *)
C10_Terminates == [](pc # "raised") => <>(pc = "done")

(* a chain of three questions ended by exhaustion of the time budget *)
C10_Witness ==
    /\ pc = "done"
    /\ status = "timeout"
    /\ Len(history) = 3
    /\ result.url # NoUrl
(* ---- the history of solve_quiz ---------------------------------------- *)

(* C18: history is append-only and in attempt order: the step that handles *)
(* a finished attempt appends exactly one record for it at the end (its    *)
(* URL, its attempt number, its outcome), every other step leaves history  *)
(* unchanged, also the steps that return.                                  *)
C18_AppendOnly ==
    [][IF pc = "handle"
       THEN /\ Len(history') = Len(history) + 1
            /\ SubSeq(history', 1, Len(history)) = history
            /\ history'[Len(history')].url = current_url
            /\ history'[Len(history')].attempt = attempts_on_current + 1
            /\ history'[Len(history')].correct = result.correct
            /\ history'[Len(history')].elapsed_seconds = elapsed
       ELSE history' = history]_vars

(* a timeout report that carries the three records of the attempts made *)
C18_Witness ==
    /\ pc = "done"
    /\ status = "timeout"
    /\ Len(history) = 3
    /\ history[1].elapsed_seconds < history[2].elapsed_seconds
    /\ history[2].elapsed_seconds < history[3].elapsed_seconds

(* C19 (as stated): no URL occurs in two history records.                  *)
C19_OneRecordPerQuestion ==
    \A i, j \in 1..Len(history) : i # j => history[i].url # history[j].url

(* C19 (amended): history holds one record per attempt: the record of a    *)
(* first attempt carries attempt = 1 and the record of a retry directly    *)
(* follows the record of the previous attempt on the same URL, with the    *)
(* attempt number one higher.                                              *)
C19_OneRecordPerAttempt ==
    \A i \in 1..Len(history) :
        \/ history[i].attempt = 1
        \/ /\ i > 1
           /\ history[i - 1].url = history[i].url
           /\ history[i].attempt = history[i - 1].attempt + 1

(* a retried question: two records with the same URL, attempts 1 and 2 *)
C19_Witness ==
    /\ Len(history) >= 2
    /\ history[1].url = history[2].url
    /\ history[1].attempt = 1
    /\ history[2].attempt = 2

(* C20: every record of an attempt that was not correct carries a reason   *)
(* or an error.                                                            *)
C20_WrongHasReason ==
    \A i \in 1..Len(history) :
        ~history[i].correct =>
            (history[i].reason # "none" \/ history[i].error # "none")
(* ======================================================================= *)
(* Strings and values of the answer path                                   *)
(*                                                                         *)
(* A Python str is a sequence of one-character strings.  A Python value is *)
(* a record [t, v]: t names the type, v holds the content.                 *)
(* ======================================================================= *)

IsStr(x) == x.t = "str"

(* Python truthiness: None, "", 0, False and [] are falsy *)
Truthy(x) ==
    CASE x.t = "none" -> FALSE
      [] x.t = "str" -> Len(x.v) > 0
      [] x.t = "int" -> x.v # 0
      [] x.t = "bool" -> x.v
      [] x.t = "list" -> Len(x.v) > 0
      [] OTHER -> TRUE

UpperCase == <<"A", "B", "C", "D", "E", "F", "G", "H", "I", "J", "K", "L", "M", "N", "O", "P", "Q", "R", "S", "T", "U", "V", "W", "X", "Y", "Z">>
LowerCase == <<"a", "b", "c", "d", "e", "f", "g", "h", "i", "j", "k", "l", "m", "n", "o", "p", "q", "r", "s", "t", "u", "v", "w", "x", "y", "z">>

(* str.lower() *)
LowerChar(c) ==
    IF \E i \in 1..26 : UpperCase[i] = c
    THEN LowerCase[CHOOSE i \in 1..26 : UpperCase[i] = c]
    ELSE c
Lower(s) == [i \in 1..Len(s) |-> LowerChar(s[i])]

Whitespace == {" ", "\n", "\t"}

(* str.strip() *)
RECURSIVE LStrip(_)
LStrip(s) ==
    IF Len(s) > 0 /\ s[1] \in Whitespace THEN LStrip(Tail(s)) ELSE s
RECURSIVE RStrip(_)
RStrip(s) ==
    IF Len(s) > 0 /\ s[Len(s)] \in Whitespace
    THEN RStrip(SubSeq(s, 1, Len(s) - 1)) ELSE s
Strip(s) == RStrip(LStrip(s))

(* str.startswith(p), p in s, str.replace(c, "") *)
StartsWith(s, p) == Len(p) <= Len(s) /\ SubSeq(s, 1, Len(p)) = p
EndsWith(s, p) == Len(p) <= Len(s) /\ SubSeq(s, Len(s) - Len(p) + 1, Len(s)) = p
Contains(s, p) ==
    \E i \in 1..(Len(s) - Len(p) + 1) : SubSeq(s, i, i + Len(p) - 1) = p
Without(s, cs) == SelectSeq(s, LAMBDA c : c \notin cs)

Digits == <<"0", "1", "2", "3", "4", "5", "6", "7", "8", "9">>
IsDigit(c) == \E i \in 1..10 : Digits[i] = c
DigitValue(c) == (CHOOSE i \in 1..10 : Digits[i] = c) - 1
AllDigits(s) == Len(s) > 0 /\ \A i \in 1..Len(s) : IsDigit(s[i])

RECURSIVE DecimalValue(_)
DecimalValue(s) ==
    IF Len(s) = 0 THEN 0
    ELSE 10 * DecimalValue(SubSeq(s, 1, Len(s) - 1)) + DigitValue(s[Len(s)])

Unsigned(s) == IF Len(s) > 0 /\ s[1] \in {"-", "+"} THEN Tail(s) ELSE s
Signed(s, n) == IF Len(s) > 0 /\ s[1] = "-" THEN 0 - n ELSE n

(* the text before and after the first "." *)
DotAt(s) == CHOOSE i \in 1..Len(s) : s[i] = "." /\ \A j \in 1..(i - 1) : s[j] # "."
HasDot(s) == \E i \in 1..Len(s) : s[i] = "."
BeforeDot(s) == SubSeq(s, 1, DotAt(s) - 1)
AfterDot(s) == SubSeq(s, DotAt(s) + 1, Len(s))

(* int(s): surrounding whitespace, a sign, decimal digits *)
IntOk(s) == AllDigits(Unsigned(Strip(s)))
IntOf(s) == Signed(Strip(s), DecimalValue(Unsigned(Strip(s))))

(* float(s) for a text with a ".": a sign, digits around one dot, at least *)
(* one digit                                                               *)
FloatOk(s) ==
    LET u == Unsigned(Strip(s)) IN
    /\ HasDot(u)
    /\ \A i \in 1..Len(BeforeDot(u)) : IsDigit(BeforeDot(u)[i])
    /\ \A i \in 1..Len(AfterDot(u)) : IsDigit(AfterDot(u)[i])
    /\ Len(BeforeDot(u)) + Len(AfterDot(u)) > 0

(* re.fullmatch(r"-?\d+(?:\.\d+)?", s) *)
NumericLiteral(s) ==
    LET u == IF Len(s) > 0 /\ s[1] = "-" THEN Tail(s) ELSE s IN
    IF HasDot(u) THEN AllDigits(BeforeDot(u)) /\ AllDigits(AfterDot(u))
    ELSE AllDigits(u)
(* ---- json.loads on the JSON texts the model uses ---------------------- *)
(* scalars (true, false, null, integers, decimals, quoted strings with the *)
(* escapes \" and \\), lists of scalars, and objects with a single member  *)
(* whose value is a scalar or a list of scalars                            *)

s_true == <<"t", "r", "u", "e">>
s_false == <<"f", "a", "l", "s", "e">>
s_null == <<"n", "u", "l", "l">>
s_answer == <<"a", "n", "s", "w", "e", "r">>
Quote == "\""
Backslash == "\\"

JsonIntOk(s) ==
    LET u == IF Len(s) > 0 /\ s[1] = "-" THEN Tail(s) ELSE s IN
    AllDigits(u) /\ (Len(u) = 1 \/ u[1] # "0")

JsonFloatOk(s) ==
    LET u == IF Len(s) > 0 /\ s[1] = "-" THEN Tail(s) ELSE s IN
    HasDot(u) /\ JsonIntOk(BeforeDot(u)) /\ AllDigits(AfterDot(u))

RECURSIVE EscapedOk(_)
EscapedOk(s) ==
    IF Len(s) = 0 THEN TRUE
    ELSE IF s[1] = Backslash
         THEN Len(s) >= 2 /\ s[2] \in {Quote, Backslash}
                /\ EscapedOk(SubSeq(s, 3, Len(s)))
         ELSE s[1] # Quote /\ EscapedOk(Tail(s))

RECURSIVE Unescape(_)
Unescape(s) ==
    IF Len(s) = 0 THEN <<>>
    ELSE IF s[1] = Backslash
         THEN <<s[2]>> \o Unescape(SubSeq(s, 3, Len(s)))
         ELSE <<s[1]>> \o Unescape(Tail(s))

Inner(s) == SubSeq(s, 2, Len(s) - 1)
Enclosed(s, open, close) == Len(s) >= 2 /\ s[1] = open /\ s[Len(s)] = close

JsonStringOk(s) == Enclosed(s, Quote, Quote) /\ EscapedOk(Inner(s))

JsonScalarOk(s) ==
    \/ s \in {s_true, s_false, s_null}
    \/ JsonIntOk(s)
    \/ JsonFloatOk(s)
    \/ JsonStringOk(s)

JsonScalar(s) ==
    CASE s = s_true -> PyBool(TRUE)
      [] s = s_false -> PyBool(FALSE)
      [] s = s_null -> PyNone
      [] JsonIntOk(s) -> PyInt(Signed(s, DecimalValue(Unsigned(s))))
      [] JsonFloatOk(s) -> PyFloat(s)
      [] OTHER -> PyStr(Unescape(Inner(s)))

(* the pieces of s between the separators c *)
RECURSIVE Split(_, _)
Split(s, c) ==
    IF \E i \in 1..Len(s) : s[i] = c
    THEN LET k == CHOOSE i \in 1..Len(s) : s[i] = c /\ \A j \in 1..(i - 1) : s[j] # c
         IN <<SubSeq(s, 1, k - 1)>> \o Split(SubSeq(s, k + 1, Len(s)), c)
    ELSE <<s>>

JsonListOk(s) ==
    /\ Enclosed(s, "[", "]")
    /\ \/ Strip(Inner(s)) = <<>>
       \/ LET parts == Split(Inner(s), ",") IN
          \A i \in 1..Len(parts) : JsonScalarOk(Strip(parts[i]))

JsonList(s) ==
    IF Strip(Inner(s)) = <<>> THEN PyList(<<>>)
    ELSE LET parts == Split(Inner(s), ",") IN
         PyList([i \in 1..Len(parts) |-> JsonScalar(Strip(parts[i]))])

JsonValueOk(s) == JsonScalarOk(s) \/ JsonListOk(s)
JsonValue(s) == IF JsonListOk(s) THEN JsonList(s) ELSE JsonScalar(s)

(* {"key": value}: the key text and the value text *)
ColonAt(s) == CHOOSE i \in 1..Len(s) : s[i] = ":" /\ \A j \in 1..(i - 1) : s[j] # ":"
MemberKey(s) == Strip(SubSeq(Inner(s), 1, ColonAt(Inner(s)) - 1))
MemberValue(s) == Strip(SubSeq(Inner(s), ColonAt(Inner(s)) + 1, Len(Inner(s))))

JsonObjectOk(s) ==
    /\ Enclosed(s, "{", "}")
    /\ \E i \in 1..Len(Inner(s)) : Inner(s)[i] = ":"
    /\ JsonStringOk(MemberKey(s))
    /\ JsonValueOk(MemberValue(s))

JsonObject(s) ==
    PyDict([key |-> Unescape(Inner(MemberKey(s))), val |-> JsonValue(MemberValue(s))])

(* json.loads(s) succeeds / its value *)
LoadsOk(s) == JsonObjectOk(Strip(s)) \/ JsonValueOk(Strip(s))
Loads(s) ==
    IF JsonObjectOk(Strip(s)) THEN JsonObject(Strip(s)) ELSE JsonValue(Strip(s))

(* ---- ask_llm_for_answer: from the message content to the result ------- *)

JsonPlaceholderTerms == 
    <<<<"p", "l", "a", "c", "e", "h", "o", "l", "d", "e", "r">>,
      <<"a", "n", "y", "t", "h", "i", "n", "g", " ", "y", "o", "u", " ", "w", "a", "n", "t">>,
      <<"y", "o", "u", "r">>,
      <<"e", "x", "a", "m", "p", "l", "e">>,
      <<"s", "t", "u", "d", "e", "n", "t">>,
      <<"c", "o", "r", "r", "e", "c", "t", " ", "a", "n", "s", "w", "e", "r">>,
      <<"t", "h", "e", " ", "a", "n", "s", "w", "e", "r">>,
      <<"s", "e", "c", "r", "e", "t", " ", "c", "o", "d", "e", " ", "y", "o", "u", " ", "s", "c", "r", "a", "p", "e", "d">>,
      <<"t", "h", "e", " ", "s", "e", "c", "r", "e", "t", " ", "c", "o", "d", "e">>,
      <<"y", "o", "u", "r", " ", "a", "n", "s", "w", "e", "r", " ", "h", "e", "r", "e">>>>

BarePlaceholderTerms == 
    <<<<"p", "l", "a", "c", "e", "h", "o", "l", "d", "e", "r">>,
      <<"a", "n", "y", "t", "h", "i", "n", "g", " ", "y", "o", "u", " ", "w", "a", "n", "t">>,
      <<"y", "o", "u", "r", " ", "a", "n", "s", "w", "e", "r">>,
      <<"e", "x", "a", "m", "p", "l", "e">>,
      <<"s", "t", "u", "d", "e", "n", "t">>,
      <<"t", "h", "e", " ", "a", "n", "s", "w", "e", "r">>>>

(* an ask_llm_for_answer result: {"answer": a} or {"answer": None, "error"} *)
LlmOk(a) == [answer |-> a, error |-> FALSE]
LlmError == [answer |-> PyNone, error |-> TRUE]

(* placeholder test of the JSON path: equal to a term or starting with it *)
JsonPlaceholder(s) ==
    \E i \in 1..Len(JsonPlaceholderTerms) :
        Lower(s) = JsonPlaceholderTerms[i] \/ StartsWith(Lower(s), JsonPlaceholderTerms[i])

(* placeholder test of the bare-string path: equal to a term *)
BarePlaceholder(s) ==
    \E i \in 1..Len(BarePlaceholderTerms) : Lower(s) = BarePlaceholderTerms[i]

(* the parse of the message content raw (already stripped of code fences)  *)
ParseContent(raw) ==
    IF LoadsOk(raw)
    THEN LET parsed == Loads(raw) IN
         IF parsed.t = "dict" /\ parsed.v.key = s_answer
         THEN IF IsStr(parsed.v.val) /\ JsonPlaceholder(parsed.v.val.v)
              THEN LlmError
              ELSE LlmOk(parsed.v.val)
         ELSE LlmOk(parsed)
    ELSE IF NumericLiteral(raw)
         THEN LlmOk(IF HasDot(raw) THEN PyFloat(raw) ELSE PyInt(IntOf(raw)))
    ELSE IF Lower(raw) \in {s_true, s_false}
         THEN LlmOk(PyBool(Lower(raw) = s_true))
    ELSE IF Len(raw) < 1000
         THEN IF BarePlaceholder(raw) THEN LlmError ELSE LlmOk(PyStr(raw))
    ELSE LlmError

(* raw_content = content.strip(); code fences removed; strip()             *)
(* "BT" stands for the backtick character                                  *)
s_fence == <<"BT", "BT", "BT">>
s_json == <<"j", "s", "o", "n">>
DropLeadingFence(s) ==
    IF StartsWith(s, s_fence)
    THEN LET r == SubSeq(s, 4, Len(s)) IN
         LStrip(IF StartsWith(r, s_json) THEN SubSeq(r, 5, Len(r)) ELSE r)
    ELSE s
DropTrailingFence(s) ==
    IF EndsWith(s, s_fence) THEN RStrip(SubSeq(s, 1, Len(s) - 3)) ELSE s
CleanContent(content) == Strip(DropTrailingFence(DropLeadingFence(Strip(content))))

(* ask_llm_for_answer once the service has answered with this content *)
AskResult(content) == ParseContent(CleanContent(content))

(* ---- solve_single_quiz: steps 7 to 9 as functions --------------------- *)

s_unknown == <<"u", "n", "k", "n", "o", "w", "n">>
s_Unknown == <<"U", "n", "k", "n", "o", "w", "n">>
AnswerPrefixes == <<<<"a", "n", "s", "w", "e", "r", ":">>, <<"r", "e", "s", "p", "o", "n", "s", "e", ":">>, <<"r", "e", "s", "u", "l", "t", ":">>>>
s_yes == <<"y", "e", "s">>
s_one == <<"1">>
ExpectedTypes == {"string", "number", "boolean", "json"}

(* raw_answer and raw_answer not in [None, "", "unknown", "Unknown"] *)
RawAccepted(raw) ==
    Truthy(raw) /\ ~(IsStr(raw) /\ raw.v \in {<<>>, s_unknown, s_Unknown})

(* re.sub: a leading Answer: / Response: / Result: (any case) and the     *)
(* whitespace after it are removed                                         *)
DropAnswerPrefix(s) ==
    IF \E i \in 1..3 : StartsWith(Lower(s), AnswerPrefixes[i])
    THEN LET k == CHOOSE i \in 1..3 : StartsWith(Lower(s), AnswerPrefixes[i]) IN
         LStrip(SubSeq(s, Len(AnswerPrefixes[k]) + 1, Len(s)))
    ELSE s

(* raw_answer.strip(), artifacts removed, strip() *)
CleanAnswer(s) == Strip(DropAnswerPrefix(Strip(s)))

(* STEP 8 for expected_type == "number" *)
ToNumber(s) ==
    LET clean_num == Without(s, {",", " "}) IN
    IF HasDot(clean_num)
    THEN IF FloatOk(clean_num) THEN PyFloat(Strip(clean_num)) ELSE PyStr(s)
    ELSE IF IntOk(clean_num) THEN PyInt(IntOf(clean_num)) ELSE PyStr(s)

(* STEP 8 for expected_type == "boolean" *)
ToBoolean(s) == PyBool(Lower(s) \in {s_true, s_yes, s_one})

(* STEP 8 for expected_type == "json" *)
ToJson(s) == IF LoadsOk(s) THEN Loads(s) ELSE PyStr(s)

(* STEP 8: type conversion of a non-None answer_value *)
TypeConvertByContent(expected_type, a) ==
    IF ~IsStr(a) THEN a
    ELSE IF Lower(a.v) \in {s_true, s_false} THEN PyBool(Lower(a.v) = s_true)
    ELSE IF NumericLiteral(a.v) THEN ToNumber(a.v)
    ELSE IF Len(a.v) > 0 /\ a.v[1] \in {"{", "["} THEN ToJson(a.v)
    ELSE a
TypeConvert(expected_type, a) ==
    IF ~IsStr(a) THEN a
    ELSE CASE expected_type = "number" -> ToNumber(a.v)
           [] expected_type = "boolean" -> ToBoolean(a.v)
           [] expected_type = "json" -> ToJson(a.v)
           [] OTHER -> a

(* re.search(r"-?\d+(?:\.\d+)?", text): where the first match starts *)
NumberStartsAt(text, i) ==
    \/ IsDigit(text[i])
    \/ text[i] = "-" /\ i < Len(text) /\ IsDigit(text[i + 1])
HasNumber(text) == \E i \in 1..Len(text) : NumberStartsAt(text, i)
FirstNumberStart(text) ==
    CHOOSE i \in 1..Len(text) :
        NumberStartsAt(text, i) /\ \A j \in 1..(i - 1) : ~NumberStartsAt(text, j)

(* the end of the longest run of digits that starts at i *)
RECURSIVE DigitsEnd(_, _)
DigitsEnd(text, i) ==
    IF i < Len(text) /\ IsDigit(text[i + 1]) THEN DigitsEnd(text, i + 1) ELSE i

FirstNumber(text) ==
    LET b == FirstNumberStart(text)
        d == IF text[b] = "-" THEN b + 1 ELSE b
        e == DigitsEnd(text, d)
        f == IF e + 1 < Len(text) /\ text[e + 1] = "." /\ IsDigit(text[e + 2])
             THEN DigitsEnd(text, e + 2) ELSE e
    IN SubSeq(text, b, f)

(* the first heading or emphasised text with 0 < len < 100, stripped *)
RECURSIVE FirstProminent(_)
FirstProminent(tags) ==
    IF Len(tags) = 0 THEN <<>>
    ELSE IF Len(Strip(tags[1])) > 0 /\ Len(Strip(tags[1])) < 100
         THEN Strip(tags[1])
         ELSE FirstProminent(Tail(tags))

(* STEP 9: the final fallback, applied when answer_value is None or "" *)
NeedsFallback(a) == a = PyNone \/ a = PyStr(<<>>)
FallbackTagsFirst(text, tags) ==
    IF Len(FirstProminent(tags)) > 0 THEN PyStr(FirstProminent(tags))
    ELSE IF HasNumber(text)
    THEN IF HasDot(FirstNumber(text)) THEN PyFloat(FirstNumber(text))
         ELSE PyInt(IntOf(FirstNumber(text)))
    ELSE PyStr(s_unknown)
Fallback(text, tags) ==
    IF HasNumber(text)
    THEN IF HasDot(FirstNumber(text)) THEN PyFloat(FirstNumber(text))
         ELSE PyInt(IntOf(FirstNumber(text)))
    ELSE IF Len(FirstProminent(tags)) > 0 THEN PyStr(FirstProminent(tags))
         ELSE PyStr(s_unknown)

(* ======================================================================= *)
(* One call of solve_single_quiz, step by step                             *)
(* ======================================================================= *)

(* message contents of the reasoning service; "BT" is the backtick *)
c_int == <<"{", "\"", "a", "n", "s", "w", "e", "r", "\"", ":", " ", "4", "2", "}">>
c_placeholder == <<"{", "\"", "a", "n", "s", "w", "e", "r", "\"", ":", " ", "\"", "y", "o", "u", "r", " ", "s", "e", "c", "r", "e", "t", " ", "c", "o", "d", "e", "\"", "}">>
c_bare_placeholder == <<"y", "o", "u", "r", " ", "s", "e", "c", "r", "e", "t", " ", "c", "o", "d", "e">>
c_example == <<"{", "\"", "a", "n", "s", "w", "e", "r", "\"", ":", " ", "\"", "a", "n", " ", "e", "x", "a", "m", "p", "l", "e", "\"", "}">>
c_digits == <<"{", "\"", "a", "n", "s", "w", "e", "r", "\"", ":", " ", "\"", "4", "2", "\"", "}">>
c_quoted == <<"{", "\"", "a", "n", "s", "w", "e", "r", "\"", ":", " ", "\"", "\\", "\"", "5", "\\", "\"", "\"", "}">>
c_true == <<"{", "\"", "a", "n", "s", "w", "e", "r", "\"", ":", " ", "\"", "t", "r", "u", "e", "\"", "}">>
c_word == <<"{", "\"", "a", "n", "s", "w", "e", "r", "\"", ":", " ", "\"", "a", "b", "c", "\"", "}">>
c_empty == <<"{", "\"", "a", "n", "s", "w", "e", "r", "\"", ":", " ", "\"", "\"", "}">>
c_prefixed == <<"A", "n", "s", "w", "e", "r", ":", " ", "a", "b", "c">>
c_list == <<"{", "\"", "a", "n", "s", "w", "e", "r", "\"", ":", " ", "\"", "[", "1", ",", " ", "2", "]", "\"", "}">>
c_decimal == <<"{", "\"", "a", "n", "s", "w", "e", "r", "\"", ":", " ", "\"", "3", ".", "5", "\"", "}">>
c_fenced == <<"BT", "BT", "BT", "j", "s", "o", "n", "\n", "{", "\"", "a", "n", "s", "w", "e", "r", "\"", ":", " ", "\"", "a", "b", "c", "\"", "}", "\n", "BT", "BT", "BT">>
c_grouped == <<"{", "\"", "a", "n", "s", "w", "e", "r", "\"", ":", " ", "\"", "1", ",", "0", "0", "0", "\"", "}">>
c_unknown == <<"{", "\"", "a", "n", "s", "w", "e", "r", "\"", ":", " ", "\"", "u", "n", "k", "n", "o", "w", "n", "\"", "}">>
c_padded == <<"{", "\"", "a", "n", "s", "w", "e", "r", "\"", ":", " ", "\"", " ", "7", " ", "\"", "}">>
c_yes == <<"{", "\"", "a", "n", "s", "w", "e", "r", "\"", ":", " ", "\"", "y", "e", "s", "\"", "}">>
c_object == <<"{", "\"", "a", "n", "s", "w", "e", "r", "\"", ":", " ", "\"", "{", "\\", "\"", "a", "\\", "\"", ":", " ", "1", "}", "\"", "}">>

Contents ==
    {c_int, c_placeholder, c_bare_placeholder, c_example, c_digits,
     c_quoted, c_true, c_word, c_empty, c_prefixed,
     c_list, c_decimal, c_fenced, c_grouped, c_unknown,
     c_padded, c_yes, c_object}

(* what ask_llm_for_answer gets from the service: a message content, or no *)
(* answer after all its retries                                            *)
Replies == {[ok |-> TRUE, content |-> c] : c \in Contents} \cup {NoReply}

(* page text with and without a number *)
PageTexts == {<<"Q", "7">>, <<"Q", "u", "i", "z">>}

(* texts of the h1/h2/h3/strong/b elements of the page, in document order *)
t_blank == <<" ">>
t_heading == <<"Y", "o", "u", "r", " ", "a", "n", "s", "w", "e", "r", " ", "h", "e", "r", "e">>
PageTags == {<<>>, <<t_blank, t_heading>>}

(* the pattern match of step 4 on a scraped page: None or a non-empty str *)
ScrapedAnswers == {PyNone, PyStr(<<"4", "2">>), PyStr(<<"e", "x", "a", "m", "p", "l", "e">>)}


(* ---- STEP 2: the submit URL -------------------------------------------- *)

(* find_submit_url_from_content gave a URL (found); otherwise the quiz     *)
(* domain + /submit is taken when the page text mentions /submit           *)
SubmitUrlAlwaysInferred(found, mentions) ==
    IF found THEN "found" ELSE "inferred"
SubmitUrl(found, mentions) ==
    IF found THEN "found" ELSE IF mentions THEN "inferred" ELSE "none"

(* ---- STEP 10: the size of json.dumps(payload) -------------------------- *)

MaxPayloadBytes == 1024 * 1024

(* the characters json.dumps writes as a two-character escape *)
JsonEscaped == {Quote, Backslash, "\n", "\t"}

RECURSIVE IntLen(_)
IntLen(n) ==
    IF n < 0 THEN 1 + IntLen(0 - n)
    ELSE IF n < 10 THEN 1 ELSE 1 + IntLen(n \div 10)

(* len(json.dumps(x)); items are separated by ", " and a key by ": "; a    *)
(* float is written as its literal (the literals used have one form only)  *)
RECURSIVE JsonLen(_)
JsonLen(x) ==
    CASE x.t = "none" -> 4
      [] x.t = "bool" -> IF x.v THEN 4 ELSE 5
      [] x.t = "int" -> IntLen(x.v)
      [] x.t = "float" -> Len(x.v)
      [] x.t = "str" ->
           2 + Len(x.v) + Cardinality({i \in 1..Len(x.v) : x.v[i] \in JsonEscaped})
      [] x.t = "list" ->
           LET RECURSIVE Items(_)
               Items(k) == IF k = 0 THEN 0 ELSE JsonLen(x.v[k]) + Items(k - 1)
           IN 2 + Items(Len(x.v)) + (IF Len(x.v) > 1 THEN 2 * (Len(x.v) - 1) ELSE 0)
      [] OTHER -> 2 + (Len(x.v.key) + 2) + 2 + JsonLen(x.v.val)

(* {"email": "", "secret": "", "url": "", "answer": } without its values *)
PayloadFrame == 50

(* payload_size: the frame, the three identity strings, the answer *)
PayloadSize(idlen, a) == PayloadFrame + idlen + JsonLen(a)

(* if payload_size > 1024 * 1024 *)
PayloadTooLargeFromLimit(sz) == sz >= MaxPayloadBytes
PayloadTooLarge(sz) == sz > MaxPayloadBytes

(* ---- inputs of the attempt --------------------------------------------- *)

(* len(email) + len(secret) + len(url): short, and so long that an answer  *)
(* of 4 bytes fills the payload to the limit exactly                       *)
SmallIdentityLen == 30
LargeIdentityLen == MaxPayloadBytes - PayloadFrame - 4
IdentityLens == {SmallIdentityLen, LargeIdentityLen}

(* the grading endpoint's answer to the POST, or a failed POST *)
Grades ==
    {[correct |-> c, has_url |-> u, error |-> "none"] : c, u \in BOOLEAN}
        \cup {[correct |-> FALSE, has_url |-> FALSE, error |-> "submission_failed"]}

ainputs == <<page_text, page_tags, found_url, mentions_submit,
             expected_answer_type, scraped, reply, identity_len>>

(* solve_single_quiz has rendered the page and analysed the question *)
AttemptInit ==
    /\ pc = "render"
    /\ current_url = start_url
    /\ attempts_on_current = 0
    /\ history = <<>>
    /\ now = start_time
    /\ elapsed = 0
    /\ time_left = timeout_seconds
    /\ result = NoResult
    /\ status = "running"
    /\ answer_found = FALSE
    /\ late_op = FALSE
    /\ sent = <<>>
    /\ HandlerIdle
    /\ LlmIdle
    /\ BundleIdle
    /\ RateIdle
    /\ a_pc = "extract"
    /\ page_text \in PageTexts
    /\ page_tags \in PageTags
    /\ found_url \in BOOLEAN
    /\ mentions_submit \in BOOLEAN
    /\ expected_answer_type \in ExpectedTypes
    /\ scraped \in ScrapedAnswers
    /\ reply \in Replies
    /\ identity_len \in IdentityLens
    /\ submit_url = "none"
    /\ answer_value = PyNone
    /\ accepted = PyNone
    /\ llm_calls = 0
    /\ posted = FALSE
    /\ payload = NoPayload
    /\ a_result = NoAttemptResult

(* ask_llm_for_answer: the result dict for what the service gave *)
AskOutcome(r) == IF r.ok THEN AskResult(r.content) ELSE LlmError

(* STEP 2: submit_url = find_submit_url_from_content(...) or inferred *)
Step2SubmitUrl ==
    /\ a_pc = "extract"
    /\ submit_url' = SubmitUrl(found_url, mentions_submit)
    /\ a_pc' = "scrape"
    /\ UNCHANGED <<cvars, xvars, ainputs, answer_value, accepted, llm_calls, posted,
                   payload, a_result>>

(* STEP 4: a pattern match on a scraped page sets answer_value *)
Step4Scrape ==
    /\ a_pc = "scrape"
    /\ answer_value' = scraped
    /\ a_pc' = "resolve"
    /\ UNCHANGED <<cvars, xvars, ainputs, submit_url, accepted, llm_calls, posted,
                   payload, a_result>>

(* STEP 7 skipped: answer_value is not None *)
Step7Skip ==
    /\ a_pc = "resolve"
    /\ answer_value # PyNone
    /\ a_pc' = "convert"
    /\ UNCHANGED <<cvars, xvars, ainputs, submit_url, answer_value, accepted,
                   llm_calls, posted, payload, a_result>>

(* STEP 7: the reasoning service is asked; a str answer is cleaned *)
Step7Accept ==
    /\ a_pc = "resolve"
    /\ answer_value = PyNone
    /\ llm_calls' = llm_calls + 1
    /\ LET raw_answer == AskOutcome(reply).answer IN
       /\ RawAccepted(raw_answer)
       /\ IsStr(raw_answer)
       /\ answer_value' = PyStr(CleanAnswer(raw_answer.v))
    /\ a_pc' = "convert"
    /\ UNCHANGED <<cvars, xvars, ainputs, submit_url, accepted, posted, payload,
                   a_result>>

(* STEP 7: the answer is None, "", "unknown" or "Unknown": not taken *)
Step7Reject ==
    /\ a_pc = "resolve"
    /\ answer_value = PyNone
    /\ llm_calls' = llm_calls + 1
    /\ ~RawAccepted(AskOutcome(reply).answer)
    /\ a_pc' = "convert"
    /\ UNCHANGED <<cvars, xvars, ainputs, submit_url, answer_value, accepted, posted,
                   payload, a_result>>

(* STEP 7: raw_answer.strip() on a truthy value that is not a str raises   *)
(* AttributeError, which nothing catches                                   *)
Step7Raises ==
    /\ a_pc = "resolve"
    /\ answer_value = PyNone
    /\ llm_calls' = llm_calls + 1
    /\ LET raw_answer == AskOutcome(reply).answer IN
       RawAccepted(raw_answer) /\ ~IsStr(raw_answer)
    /\ a_pc' = "raised"
    /\ UNCHANGED <<cvars, xvars, ainputs, submit_url, answer_value, accepted, posted,
                   payload, a_result>>

(* STEP 8: conversion to the expected answer type; accepted keeps the      *)
(* value before the conversion                                             *)
Step8Convert ==
    /\ a_pc = "convert"
    /\ accepted' = answer_value
    /\ answer_value' = IF answer_value # PyNone
                       THEN TypeConvert(expected_answer_type, answer_value)
                       ELSE answer_value
    /\ a_pc' = "fallback"
    /\ UNCHANGED <<cvars, xvars, ainputs, submit_url, llm_calls, posted, payload,
                   a_result>>

(* STEP 9: the final fallback *)
Step9Fallback ==
    /\ a_pc = "fallback"
    /\ answer_value' = IF NeedsFallback(answer_value)
                       THEN Fallback(page_text, page_tags)
                       ELSE answer_value
    /\ a_pc' = "submit"
    /\ UNCHANGED <<cvars, xvars, ainputs, submit_url, accepted, llm_calls, posted,
                   payload, a_result>>

(* STEP 10: if not submit_url: error result *)
Step10NoSubmitUrl ==
    /\ a_pc = "submit"
    /\ submit_url = "none"
    /\ a_result' = [correct |-> FALSE, has_url |-> FALSE, error |-> "no_submit_url"]
    /\ a_pc' = "done"
    /\ UNCHANGED <<cvars, xvars, ainputs, submit_url, answer_value, accepted,
                   llm_calls, posted, payload>>

(* STEP 10: the payload is above the limit: error result *)
Step10TooLarge ==
    /\ a_pc = "submit"
    /\ submit_url # "none"
    /\ PayloadTooLarge(PayloadSize(identity_len, answer_value))
    /\ a_result' = [correct |-> FALSE, has_url |-> FALSE, error |-> "payload_too_large"]
    /\ a_pc' = "done"
    /\ UNCHANGED <<cvars, xvars, ainputs, submit_url, answer_value, accepted,
                   llm_calls, posted, payload>>

(* STEP 10: requests.post(submit_url, json=payload); the result is built   *)
(* from the grading answer, or is the error of a failed POST               *)
Step10Post ==
    /\ a_pc = "submit"
    /\ submit_url # "none"
    /\ ~PayloadTooLarge(PayloadSize(identity_len, answer_value))
    /\ posted' = TRUE
    /\ payload' = [answer |-> answer_value,
                   size |-> PayloadSize(identity_len, answer_value)]
    /\ \E g \in Grades : a_result' = g
    /\ a_pc' = "done"
    /\ UNCHANGED <<cvars, xvars, ainputs, submit_url, answer_value, accepted,
                   llm_calls>>

AttemptNext ==
    \/ Step2SubmitUrl
    \/ Step4Scrape
    \/ Step7Skip
    \/ Step7Accept
    \/ Step7Reject
    \/ Step7Raises
    \/ Step8Convert
    \/ Step9Fallback
    \/ Step10NoSubmitUrl
    \/ Step10TooLarge
    \/ Step10Post

AttemptSpec == AttemptInit /\ [][AttemptNext]_vars

AttemptTypeOK ==
    /\ a_pc \in {"extract", "scrape", "resolve", "convert", "fallback",
                 "submit", "done", "raised"}
    /\ submit_url \in {"found", "inferred", "none"}
    /\ llm_calls \in 0..1
    /\ posted \in BOOLEAN
    /\ a_result \in Grades \cup {NoAttemptResult,
           [correct |-> FALSE, has_url |-> FALSE, error |-> "no_submit_url"],
           [correct |-> FALSE, has_url |-> FALSE, error |-> "payload_too_large"]}

(* ======================================================================= *)
(* Properties of one attempt                                               *)
(* ======================================================================= *)

(* the text holds one of the placeholder phrases of ask_llm_for_answer;    *)
(* each phrase of the bare-string list holds one of the JSON list          *)
ContainsPlaceholder(s) ==
    \E i \in 1..Len(JsonPlaceholderTerms) : Contains(Lower(s), JsonPlaceholderTerms[i])

C12_NoSubmitUrlFails ==
    ~found_url /\ ~mentions_submit =>
        /\ ~posted
        /\ ~a_result.correct
        /\ ~a_result.has_url
        /\ a_pc = "done" => a_result.error = "no_submit_url"

(* an attempt on a page without any submit URL has returned its error *)
C12_Witness ==
    /\ a_pc = "done"
    /\ ~found_url
    /\ ~mentions_submit
    /\ a_result.error = "no_submit_url"
    /\ ~posted

(* C13: no answer that equals or contains a placeholder phrase is placed   *)
(* in a posted payload, whichever path produced it.                        *)
C13_NoPlaceholderPosted ==
    posted => ~(IsStr(payload.answer) /\ ContainsPlaceholder(payload.answer.v))

(* C14: when the reasoning service answers "your secret code", the answer  *)
(* is rejected, resolution is invoked exactly once more (twice in all),    *)
(* and what is posted is a number from the page or the sentinel "unknown". *)
C14_PlaceholderRetriedThenFallback ==
    /\ reply.ok
    /\ reply.content \in {c_placeholder, c_bare_placeholder}
    /\ scraped = PyNone
    /\ posted
    => /\ llm_calls = 2
       /\ \/ payload.answer.t \in {"int", "float"}
          \/ payload.answer = PyStr(s_unknown)

(* C15: with no scraped answer, the reply {"answer": 42} lets the attempt  *)
(* complete, and the payload it posts carries the integer 42.              *)
C15_JsonNumberPosted ==
    reply.ok /\ reply.content = c_int /\ scraped = PyNone =>
        /\ a_pc # "raised"
        /\ posted => payload.answer = PyInt(42)

(* C16: the type conversion of step 8 is idempotent for the expected type  *)
(* of the attempt: applied to its own output it returns that output.       *)
C16_ConvertIdempotent ==
    a_pc = "fallback" /\ answer_value # PyNone =>
        TypeConvert(expected_answer_type, answer_value) = answer_value

(* C17 (as stated): the accepted answer is normalized by its content,      *)
(* whatever the declared type: true/false becomes a boolean, a text that   *)
(* fully matches the numeric grammar becomes an int or a float, a text     *)
(* starting with { or [ that parses becomes the parsed value, anything     *)
(* else stays the trimmed string.                                          *)
C17_NormalizedByContent ==
    a_pc = "fallback" /\ IsStr(accepted) =>
        LET s == accepted.v IN
        answer_value =
            IF Lower(s) \in {s_true, s_false} THEN PyBool(Lower(s) = s_true)
            ELSE IF NumericLiteral(s)
                 THEN (IF HasDot(s) THEN PyFloat(s) ELSE PyInt(IntOf(s)))
            ELSE IF Len(s) > 0 /\ s[1] \in {"{", "["} /\ LoadsOk(s) THEN Loads(s)
            ELSE PyStr(Strip(s))

(* C17 (amended): the accepted answer, a trimmed string, is converted by   *)
(* the declared expected answer type and not by its content: "number"      *)
(* drops commas and spaces and gives an int, or a float when a "." is      *)
(* present, and keeps the string when that fails; "boolean" gives true     *)
(* exactly for true, yes and 1 in any case; "json" gives the parsed value  *)
(* when the text parses and keeps the string otherwise; any other declared *)
(* type keeps the string as it is.                                         *)
C17_NormalizedByDeclaredType ==
    a_pc = "fallback" /\ IsStr(accepted) =>
        LET s == accepted.v
            clean_num == Without(s, {",", " "})
        IN
        /\ Strip(s) = s
        /\ expected_answer_type = "string" => answer_value = accepted
        /\ expected_answer_type = "boolean" =>
              answer_value = PyBool(Lower(s) \in {s_true, s_yes, s_one})
        /\ expected_answer_type = "number" =>
              answer_value =
                  IF HasDot(clean_num) /\ FloatOk(clean_num) THEN PyFloat(clean_num)
                  ELSE IF ~HasDot(clean_num) /\ IntOk(clean_num) THEN PyInt(IntOf(clean_num))
                  ELSE accepted
        /\ expected_answer_type = "json" =>
              answer_value = IF LoadsOk(s) THEN Loads(s) ELSE accepted

(* a text that reads as a number was declared a string and stayed a string *)
C17_Witness ==
    /\ a_pc = "fallback"
    /\ expected_answer_type = "string"
    /\ accepted = PyStr(<<"4", "2">>)
    /\ answer_value = PyStr(<<"4", "2">>)

(* ======================================================================= *)
(* handle_quiz (src/app/main.py): one request to POST /quiz                *)
(* ======================================================================= *)

(* solve_quiz has not been called *)
ChainIdle ==
    /\ pc = "idle"
    /\ current_url = start_url
    /\ attempts_on_current = 0
    /\ history = <<>>
    /\ now = start_time
    /\ elapsed = 0
    /\ time_left = timeout_seconds
    /\ result = NoResult
    /\ status = "running"
    /\ answer_found = FALSE
    /\ late_op = FALSE
    /\ sent = <<>>

(* the request body: not JSON; JSON that is no object (building the       *)
(* QuizPayload raises TypeError); an object that fails the validation; a   *)
(* valid payload                                                           *)
Bodies == {"invalid_json", "not_object", "invalid_payload", "ok"}

(* secrets: the default of SECRET, two others, the empty string *)
Secrets == {"CHANGE_ME", "s3cret", "S3CRET", ""}

(* if payload.secret != SECRET *)
SecretMismatchUnlessEmpty(given, held) == given # held /\ given # ""
SecretMismatch(given, held) == given # held

HandlerInit ==
    /\ ChainIdle
    /\ AttemptIdle
    /\ LlmIdle
    /\ BundleIdle
    /\ RateIdle
    /\ h_pc = "received"
    /\ body \in Bodies
    /\ req_secret \in Secrets
    /\ server_secret \in Secrets
    /\ http_status = 0
    /\ solve_invoked = FALSE

Responds(code) ==
    /\ http_status' = code
    /\ h_pc' = "responded"
    /\ UNCHANGED <<cvars, avars, lvars, bvars, rvars, body, req_secret, server_secret,
                   solve_invoked>>

(* request.json() raises: HTTPException 400 *)
RejectInvalidJson ==
    /\ h_pc = "received"
    /\ body = "invalid_json"
    /\ Responds(400)

(* unpacking a JSON value that is no mapping into QuizPayload raises       *)
(* TypeError, which is not a ValidationError: the framework answers 500    *)
RejectNotObject ==
    /\ h_pc = "received"
    /\ body = "not_object"
    /\ Responds(500)

(* ValidationError: HTTPException 400 *)
RejectInvalidPayload ==
    /\ h_pc = "received"
    /\ body = "invalid_payload"
    /\ Responds(400)

(* payload.secret != SECRET: HTTPException 403 *)
RejectSecret ==
    /\ h_pc = "received"
    /\ body = "ok"
    /\ SecretMismatch(req_secret, server_secret)
    /\ Responds(403)

(* start_time = time.time(); result = await solve_quiz(...) *)
InvokeSolveQuiz ==
    /\ h_pc = "received"
    /\ body = "ok"
    /\ ~SecretMismatch(req_secret, server_secret)
    /\ solve_invoked' = TRUE
    /\ h_pc' = "solving"
    /\ UNCHANGED <<cvars, avars, lvars, bvars, rvars, body, req_secret, server_secret,
                   http_status>>

(* return result *)
SolveQuizReturns ==
    /\ h_pc = "solving"
    /\ Responds(200)

(* an exception leaves solve_quiz: nothing catches it in handle_quiz *)
SolveQuizRaises ==
    /\ h_pc = "solving"
    /\ Responds(500)

HandlerNext ==
    \/ RejectInvalidJson
    \/ RejectNotObject
    \/ RejectInvalidPayload
    \/ RejectSecret
    \/ InvokeSolveQuiz
    \/ SolveQuizReturns
    \/ SolveQuizRaises

HandlerSpec == HandlerInit /\ [][HandlerNext]_vars

(* C21: solve_quiz is invoked only for a request whose body is valid JSON  *)
(* holding a valid payload and whose secret equals the server's SECRET; a  *)
(* valid payload with another secret is answered 403 and solve_quiz is not *)
(* invoked for it.                                                         *)
C21_SecretCheckedFirst ==
    /\ solve_invoked => body = "ok" /\ req_secret = server_secret
    /\ h_pc = "responded" /\ body = "ok" /\ req_secret # server_secret =>
          http_status = 403 /\ ~solve_invoked

(* a valid payload with a wrong secret was rejected *)
C21_Witness ==
    /\ h_pc = "responded"
    /\ body = "ok"
    /\ req_secret # server_secret
    /\ http_status = 403
    /\ ~solve_invoked

(* ---- ask_llm_for_answer (src/app/llm_interface.py): one call ----------- *)

max_retries == 5
base_delay == 5
ContextCap == 2000

(* the lengths of context_text the callers pass, around the cap *)
ContextLens == {0, 1, ContextCap - 1, ContextCap, ContextCap + 1, 3 * ContextCap}

(* context_text[:2000] inside the user prompt: a slice adds nothing to the *)
(* characters it keeps                                                     *)
PromptContext(len) ==
    [len |-> IF len < ContextCap THEN len ELSE ContextCap, marker |-> FALSE]

(* the Retry-After header of a 429 response: absent, or a Latin-1 string;  *)
(* "SUP2" stands for the superscript two, U+00B2                           *)
RetryAfters ==
    {NoHeader} \cup
    {[present |-> TRUE, value |-> v] :
        v \in {<<"7">>, <<"0">>, <<"1", "2", "0">>, <<>>, <<"s", "o", "o", "n">>,
               <<"SUP2">>}}

(* str.isdigit() holds of a non-empty string of digit characters, and the  *)
(* superscript two is one; int() takes the decimal digits only             *)
IsDigitString(s) == Len(s) > 0 /\ \A i \in 1..Len(s) : IsDigit(s[i]) \/ s[i] = "SUP2"
IntRaises(s) == ~AllDigits(s)

(* base_delay * (2 ** attempt) *)
Backoff(attempt) == base_delay * (2 ^ attempt)

(* for attempt in range(max_retries) *)
MoreAttemptsInclusive(attempt) == attempt <= max_retries
MoreAttempts(attempt) == attempt < max_retries

(* where the loop goes after a 200 response whose JSON parsed: break *)
AfterSuccessUnlessLast(attempt) == IF attempt < max_retries - 1 THEN "loop" ELSE "parse"
AfterSuccess(attempt) == "parse"

(* attempt < max_retries - 1 *)
NotLastAttempt(attempt) == attempt < max_retries - 1

(* the failures the loop retries with the backoff delay: a status other    *)
(* than 200 and 429, Timeout, ConnectionError, and any other exception     *)
(* whose message names a rate limit                                        *)
RetriedAlways(kind) ==
    kind \in {"http_error", "timeout", "connection_error", "exception_rate_limit",
              "exception_other"}
Retried(kind) ==
    kind \in {"http_error", "timeout", "connection_error", "exception_rate_limit"}
FailureKinds ==
    {"http_error", "timeout", "connection_error", "exception_rate_limit",
     "exception_other"}

(* the bodies of a 200 response whose JSON parses: no choices[0].message   *)
(* .content in it, a content of null, or a content string                  *)
c_null_answer == <<"{", "\"", "a", "n", "s", "w", "e", "r", "\"", ":", " ", "n", "u", "l", "l", "}">>
c_null == <<"n", "u", "l", "l">>
Bodies200 ==
    {[shape |-> "malformed", content |-> <<>>], [shape |-> "null_content", content |-> <<>>]}
    \cup {[shape |-> "text", content |-> c] :
             c \in {c_int, c_word, c_placeholder, c_fenced, c_null_answer, c_null}}

LlmInit ==
    /\ ChainIdle
    /\ AttemptIdle
    /\ HandlerIdle
    /\ BundleIdle
    /\ RateIdle
    /\ l_pc = "start"
    /\ has_token \in BOOLEAN
    /\ l_attempt = 0
    /\ requests = 0
    /\ last_response = NoResponse
    /\ last_delay = 0
    /\ l_body = NoBody
    /\ l_result = NoLlmResult
    /\ context_len \in ContextLens
    /\ prompt_context = NoContext

LlmOthers == UNCHANGED <<cvars, avars, hvars, bvars, rvars, has_token, context_len>>

(* if not AIPIPE_TOKEN: return {"answer": None, "error": ...} *)
MissingToken ==
    /\ l_pc = "start"
    /\ ~has_token
    /\ l_result' = LlmError
    /\ l_pc' = "returned"
    /\ UNCHANGED <<l_attempt, requests, last_response, last_delay, l_body,
                   prompt_context>>
    /\ LlmOthers

(* the prompts and the payload are built *)
BuildPrompt ==
    /\ l_pc = "start"
    /\ has_token
    /\ prompt_context' = PromptContext(context_len)
    /\ l_pc' = "loop"
    /\ UNCHANGED <<l_attempt, requests, last_response, last_delay, l_body, l_result>>
    /\ LlmOthers

(* one iteration of the loop: the request is issued, then ... *)
Request(response) ==
    /\ l_pc = "loop"
    /\ MoreAttempts(l_attempt)
    /\ requests' = requests + 1
    /\ last_response' = response
    /\ UNCHANGED prompt_context
    /\ LlmOthers

(* ... the loop goes on after sleeping delay, or the call returns an error *)
SleepAndContinue(delay) ==
    /\ last_delay' = delay
    /\ l_attempt' = l_attempt + 1
    /\ l_pc' = "loop"
    /\ UNCHANGED <<l_body, l_result>>
ReturnError ==
    /\ last_delay' = 0
    /\ l_result' = LlmError
    /\ l_pc' = "returned"
    /\ UNCHANGED <<l_attempt, l_body>>

(* status 429: the Retry-After value or the backoff delay is slept unless  *)
(* this is the last attempt; int() raising is caught by except Exception,  *)
(* whose message names no rate limit                                       *)
Response429 ==
    \E h \in RetryAfters :
        /\ Request([kind |-> "429", retry_after |-> h])
        /\ IF NotLastAttempt(l_attempt)
           THEN IF h.present /\ h.value # <<>> /\ IsDigitString(h.value)
                THEN IF IntRaises(h.value)
                     THEN ReturnError
                     ELSE SleepAndContinue(DecimalValue(h.value))
                ELSE SleepAndContinue(Backoff(l_attempt))
           ELSE ReturnError

(* another status than 200, Timeout, ConnectionError, another exception *)
ResponseFailure ==
    \E kind \in FailureKinds :
        /\ Request([kind |-> kind, retry_after |-> NoHeader])
        /\ IF Retried(kind) /\ NotLastAttempt(l_attempt)
           THEN SleepAndContinue(Backoff(l_attempt))
           ELSE ReturnError

(* status 200 and response.json() raises JSONDecodeError *)
ResponseInvalidJson ==
    /\ Request([kind |-> "invalid_json", retry_after |-> NoHeader])
    /\ ReturnError

(* status 200 and a JSON body: break *)
ResponseOk ==
    \E b \in Bodies200 :
        /\ Request([kind |-> "ok", retry_after |-> NoHeader])
        /\ l_body' = b
        /\ last_delay' = 0
        /\ l_pc' = AfterSuccess(l_attempt)
        /\ l_attempt' = IF l_pc' = "loop" THEN l_attempt + 1 ELSE l_attempt
        /\ UNCHANGED l_result

(* result["choices"][0]["message"]["content"].strip() and the parse of the *)
(* content: KeyError, IndexError and TypeError give an error result, the   *)
(* AttributeError of a null content leaves the function                    *)
ParseResponse ==
    /\ l_pc = "parse"
    /\ IF l_body.shape = "malformed"
       THEN l_result' = LlmError /\ l_pc' = "returned"
       ELSE IF l_body.shape = "null_content"
       THEN l_result' = l_result /\ l_pc' = "raised"
       ELSE l_result' = AskResult(l_body.content) /\ l_pc' = "returned"
    /\ UNCHANGED <<l_attempt, requests, last_response, last_delay, l_body,
                   prompt_context>>
    /\ LlmOthers

LlmNext ==
    \/ MissingToken
    \/ BuildPrompt
    \/ Response429
    \/ ResponseFailure
    \/ ResponseInvalidJson
    \/ ResponseOk
    \/ ParseResponse

LlmSpec == LlmInit /\ [][LlmNext]_vars

(* C22: one call issues at most max_retries requests whatever the          *)
(* responses are, and once a response with status 200 and a JSON body has  *)
(* come the loop is left and no further request is issued.                 *)
C22_BoundedRequests ==
    /\ [](requests <= max_retries /\ (last_response.kind = "ok" => l_pc # "loop"))
    /\ [][last_response.kind = "ok" => requests' = requests]_vars

(* the fifth request succeeded after four failures *)
C22_Witness ==
    /\ requests = max_retries
    /\ last_response.kind = "ok"
    /\ l_pc = "returned"

(* C23: after a 429 answer to the request of index k that is not the last, *)
(* the call sleeps the Retry-After value when the header is present and    *)
(* numeric and base_delay * 2^k otherwise, then goes on; after a 429       *)
(* answer to the last request it returns an error without sleeping.        *)
C23_RateLimitWait ==
    last_response.kind = "429" =>
        IF requests < max_retries
        THEN /\ l_pc = "loop"
             /\ last_delay =
                    IF last_response.retry_after.present
                       /\ AllDigits(last_response.retry_after.value)
                    THEN DecimalValue(last_response.retry_after.value)
                    ELSE base_delay * (2 ^ (requests - 1))
        ELSE l_pc = "returned" /\ l_result = LlmError /\ last_delay = 0

(* C24: a failure other than a rate limit (another status than 200,        *)
(* a timeout, a connection error, any other exception) of a request that   *)
(* is not the last is followed by another request.                         *)
C24_AllFailuresRetried ==
    /\ last_response.kind \in {"http_error", "timeout", "connection_error",
                               "exception_other"}
    /\ requests < max_retries
    => l_pc = "loop"

(* C24 as amended: another status than 200, a timeout, a connection error  *)
(* and an exception whose message names a rate limit are retried after     *)
(* base_delay * 2^k until the bound; any other exception ends the call at  *)
(* once with an error result.                                              *)
C24_FailuresRetriedByKind ==
    /\ /\ last_response.kind \in {"http_error", "timeout", "connection_error",
                                  "exception_rate_limit"}
       /\ requests < max_retries
       => l_pc = "loop" /\ last_delay = base_delay * (2 ^ (requests - 1))
    /\ last_response.kind = "exception_other" =>
          l_pc = "returned" /\ l_result = LlmError

(* an exception that names no rate limit came while attempts remained, a   *)
(* timeout was retried                                                     *)
C24_Witness ==
    \/ last_response.kind = "exception_other" /\ requests = 2 /\ l_pc = "returned"
    \/ last_response.kind = "timeout" /\ requests = 4 /\ l_pc = "loop"

(* C25: the call never raises, and what it returns is either an answer     *)
(* that is not None without an error, or an answer of None with an error.  *)
C25_StructuredResult ==
    /\ l_pc # "raised"
    /\ l_pc = "returned" =>
          \/ l_result.answer # PyNone /\ ~l_result.error
          \/ l_result.answer = PyNone /\ l_result.error

(* C29: the part of context_text in the prompt is at most ContextCap long  *)
(* and carries a truncation marker exactly when context_text was cut.      *)
C29_ContextCapMarked ==
    l_pc \notin {"start", "idle"} /\ has_token =>
        /\ prompt_context.len <= ContextCap
        /\ prompt_context.marker <=> context_len > ContextCap

(* ---- solve_single_quiz, steps 4 to 6: the auxiliary sub-resources ------ *)

(* bounds: the other URLs, the API-like URLs among them and the download   *)
(* links of one page; the k-th other URL is k, the k-th link is k          *)
MaxOtherUrls == 6
MaxApiUrls == 2
MaxLinks == 2

BundleInit ==
    /\ ChainIdle
    /\ AttemptIdle
    /\ HandlerIdle
    /\ LlmIdle
    /\ RateIdle
    /\ b_pc = "scrape"
    /\ n_urls \in 0..MaxOtherUrls
    /\ n_api \in 0..MaxApiUrls
    /\ n_api <= n_urls
    /\ n_links \in 0..MaxLinks
    /\ needs_scrape \in BOOLEAN
    /\ needs_api \in BOOLEAN
    /\ b_idx = 0
    /\ scraped_data = <<>>
    /\ dataframes = <<>>
    /\ api_data = <<>>
    /\ failed = {}
    /\ matched = 0
    /\ match_taken = 0

BundleInputs == <<n_urls, n_api, n_links, needs_scrape, needs_api>>
BundleOthers == UNCHANGED <<cvars, avars, hvars, lvars, rvars, BundleInputs>>

(* what a sub-fetch that raised leaves behind: print(...); the list of     *)
(* entries is as it was                                                    *)
KeptWithErrorNote(entries, url) == Append(entries, [url |-> url, ok |-> FALSE])
Kept(entries, url) == entries

(* where the loop of a stage goes after a sub-fetch that raised: continue  *)
AfterErrorAbort(stage) == "raised"
AfterError(stage) == stage

(* if answer_value is None and potential_answer: answer_value = ...; the   *)
(* k-th match of the page with a non-empty group is offered               *)
TakeMatch(current, k) == IF current = 0 THEN k ELSE current

(* the loops over key terms and patterns of one page with m such matches:  *)
(* both are left as soon as answer_value is set                            *)
RECURSIVE PatternLoop(_, _, _)
PatternLoop(current, k, m) ==
    IF k > m THEN current
    ELSE IF TakeMatch(current, k) # 0 THEN TakeMatch(current, k)
         ELSE PatternLoop(current, k + 1, m)

(* the loop over other_urls goes on to the next page: if answer_value:     *)
(* break                                                                   *)
ScrapeGoesOnAlways(taken) == TRUE
ScrapeGoesOn(taken) == taken = 0

(* the matches with a non-empty group one page may hold *)
MaxMatches == 2

(* STEP 4, one iteration: the page is fetched and appended; key term       *)
(* patterns may match in it, the first of which sets answer_value and      *)
(* leaves the loops                                                        *)
ScrapeUrl ==
    /\ b_pc = "scrape"
    /\ needs_scrape
    /\ ScrapeGoesOn(match_taken)
    /\ b_idx < n_urls
    /\ b_idx' = b_idx + 1
    /\ \E raises \in BOOLEAN, m \in 0..MaxMatches :
          IF raises
          THEN /\ m = 0
               /\ scraped_data' = Kept(scraped_data, b_idx')
               /\ failed' = failed \cup {<<"scrape", b_idx'>>}
               /\ b_pc' = AfterError("scrape")
               /\ UNCHANGED <<matched, match_taken>>
          ELSE /\ scraped_data' = Append(scraped_data, [url |-> b_idx', ok |-> TRUE])
               /\ match_taken' = PatternLoop(match_taken, 1, m)
               /\ matched' = IF match_taken = 0 /\ match_taken' # 0
                             THEN b_idx' ELSE matched
               /\ UNCHANGED <<failed, b_pc>>
    /\ UNCHANGED <<dataframes, api_data>>
    /\ BundleOthers

(* STEP 4 is over, or is skipped *)
ScrapeDone ==
    /\ b_pc = "scrape"
    /\ ~needs_scrape \/ ~ScrapeGoesOn(match_taken) \/ b_idx = n_urls
    /\ b_pc' = "download"
    /\ b_idx' = 0
    /\ UNCHANGED <<scraped_data, dataframes, api_data, failed, matched, match_taken>>
    /\ BundleOthers

(* STEP 5, one iteration: download_and_load_data gives a frame, which is   *)
(* appended, or raises                                                     *)
DownloadLink ==
    /\ b_pc = "download"
    /\ b_idx < n_links
    /\ b_idx' = b_idx + 1
    /\ \E outcome \in {"ok", "raises"} :
          IF outcome = "ok"
          THEN /\ dataframes' = Append(dataframes, [url |-> b_idx', ok |-> TRUE])
               /\ UNCHANGED <<failed, b_pc>>
          ELSE /\ dataframes' = Kept(dataframes, b_idx')
               /\ failed' = failed \cup {<<"download", b_idx'>>}
               /\ b_pc' = AfterError("download")
    /\ UNCHANGED <<scraped_data, api_data, matched, match_taken>>
    /\ BundleOthers

DownloadDone ==
    /\ b_pc = "download"
    /\ b_idx = n_links
    /\ b_pc' = "api"
    /\ b_idx' = 0
    /\ UNCHANGED <<scraped_data, dataframes, api_data, failed, matched, match_taken>>
    /\ BundleOthers

(* STEP 6, one iteration: an other URL that looks like an API endpoint is  *)
(* requested and the response appended with its status, whatever the       *)
(* status is; the other URLs are passed over                               *)
CallApi ==
    /\ b_pc = "api"
    /\ needs_api
    /\ b_idx < n_urls
    /\ b_idx' = b_idx + 1
    /\ IF b_idx' <= n_api
       THEN \E outcome \in {"ok", "error_status", "raises"} :
               IF outcome # "raises"
               THEN /\ api_data' = Append(api_data, [url |-> b_idx', ok |-> outcome = "ok"])
                    /\ UNCHANGED <<failed, b_pc>>
               ELSE /\ api_data' = Kept(api_data, b_idx')
                    /\ failed' = failed \cup {<<"api", b_idx'>>}
                    /\ b_pc' = AfterError("api")
       ELSE UNCHANGED <<api_data, failed, b_pc>>
    /\ UNCHANGED <<scraped_data, dataframes, matched, match_taken>>
    /\ BundleOthers

(* STEP 6 is over, or is skipped: STEP 7 follows *)
ApiDone ==
    /\ b_pc = "api"
    /\ ~needs_api \/ b_idx = n_urls
    /\ b_pc' = "resolve"
    /\ UNCHANGED <<b_idx, scraped_data, dataframes, api_data, failed, matched, match_taken>>
    /\ BundleOthers

(* STEP 7: if answer_value is None the reasoning service is asked for the  *)
(* answer, otherwise the step is passed over                               *)
AnswerExtraction ==
    /\ b_pc = "resolve"
    /\ b_pc' = IF match_taken = 0 THEN "asked" ELSE "passed"
    /\ UNCHANGED <<b_idx, scraped_data, dataframes, api_data, failed, matched, match_taken>>
    /\ BundleOthers

BundleNext ==
    \/ ScrapeUrl
    \/ ScrapeDone
    \/ DownloadLink
    \/ DownloadDone
    \/ CallApi
    \/ ApiDone
    \/ AnswerExtraction

BundleSpec == BundleInit /\ [][BundleNext]_vars

(* the entries of a stage, the sub-resources in them, and the sub-         *)
(* resources of the stage that were fetched, with or without success       *)
Entries(stage) ==
    IF stage = "scrape" THEN scraped_data
    ELSE IF stage = "download" THEN dataframes ELSE api_data
InBundle(stage) == {Entries(stage)[i].url : i \in 1..Len(Entries(stage))}
Raised(stage) == {f[2] : f \in {g \in failed : g[1] = stage}}
Processed(stage) == InBundle(stage) \cup Raised(stage)

(* C26: a sub-fetch that raises never ends the attempt: the stage goes on  *)
(* with its remaining sub-resources (unless a pattern match ends the       *)
(* scraping), the later stages run, and answer resolution is reached.      *)
C26_FailureNeverAborts ==
    /\ b_pc # "raised"
    /\ b_pc \in {"download", "api", "resolve"} /\ needs_scrape /\ matched = 0 =>
          Processed("scrape") = 1..n_urls
    /\ b_pc \in {"api", "resolve"} => Processed("download") = 1..n_links
    /\ b_pc = "resolve" /\ needs_api => Processed("api") = 1..n_api

(* the first sub-fetch of every stage raised, the second page was scraped  *)
(* and answer resolution is next                                           *)
C26_Witness ==
    /\ b_pc = "resolve"
    /\ {<<"scrape", 1>>, <<"download", 1>>, <<"api", 1>>} \subseteq failed
    /\ 2 \in InBundle("scrape")
    /\ 2 \in InBundle("download")
    /\ 2 \in InBundle("api")

(* C27: every sub-fetch that failed has an error entry in the bundle.      *)
C27_ErrorsKept ==
    \A f \in failed :
        \E i \in 1..Len(Entries(f[1])) :
            Entries(f[1])[i].url = f[2] /\ ~Entries(f[1])[i].ok

(* C27 as amended: a sub-fetch that raised has no entry in the bundle,     *)
(* which holds the sub-fetches that returned and nothing else; the only    *)
(* entries that tell of an error are API responses with an error status.   *)
C27_OnlyReturnedKept ==
    \A stage \in {"scrape", "download", "api"} :
        /\ InBundle(stage) \cap Raised(stage) = {}
        /\ \A i \in 1..Len(Entries(stage)) : ~Entries(stage)[i].ok => stage = "api"

(* a sub-fetch raised in every stage and the bundle is complete *)
C27_Witness ==
    /\ b_pc = "resolve"
    /\ \A stage \in {"scrape", "download", "api"} : Raised(stage) # {}
    /\ scraped_data # <<>>

(* C30: the other URLs fetched in one attempt are at most a fixed number,  *)
(* here one less than the most a page of the model references.             *)
CrossLinkCap == MaxOtherUrls - 1
C30_CrossLinksBounded == Cardinality(Processed("scrape")) <= CrossLinkCap

(* ---- solve_quiz and the duration of one attempt ------------------------ *)

(* C28: an attempt is cut off at a ceiling below the budget of the chain,  *)
(* so that every attempt, whatever its operations last, is back in         *)
(* solve_quiz less than timeout_seconds after it began (elapsed is the     *)
(* time at which the last attempt began).                                  *)
C28_AttemptCeiling ==
    pc = "loop" /\ Len(history) > 0 => Elapsed(now) - elapsed < timeout_seconds

(* ---- rate_limit_wait (src/app/llm_interface.py) ------------------------ *)

MAX_REQUESTS_PER_MINUTE == 10
WindowSeconds == 60
MinGapSeconds == 2

(* bounds: the clock at the first call of the model (time.time() is far    *)
(* above the window length) and the time after which the clock stands      *)
(* still                                                                   *)
StartClock == 1000
Horizon == 8

(* the globals before the first call of the model: as the module sets      *)
(* them, or as nine requests admitted in the last twenty seconds, the last *)
(* of them one second ago, have left them                                  *)
Fresh == [last |-> 0, count |-> 0, start |-> 0]
Busy ==
    [last |-> StartClock - 1,
     count |-> MAX_REQUESTS_PER_MINUTE - 1,
     start |-> StartClock - 10 * MinGapSeconds]

(* a sleep is over when the clock has reached its end *)
SleepOver(c) == r_clock >= r_wake[c]

(* _request_count >= _MAX_REQUESTS_PER_MINUTE *)
LimitHitAbove(count) == count > MAX_REQUESTS_PER_MINUTE
LimitHit(count) == count >= MAX_REQUESTS_PER_MINUTE

(* _request_count += 1; _last_request_time = time.time(); return *)
Admit(c, count) ==
    /\ request_count' = count + 1
    /\ last_request_time' = r_clock
    /\ r_admitted' = r_admitted + 1
    /\ r_pc' = [r_pc EXCEPT ![c] = "out"]
    /\ UNCHANGED r_wake

GapCheckNever(c, entered, count) == Admit(c, count)

(* time_since_last = now - _last_request_time with the now read on entry;  *)
(* below 2 the caller sleeps 2 - time_since_last, then is admitted         *)
GapCheck(c, entered, count) ==
    LET time_since_last == entered - last_request_time IN
    IF time_since_last < MinGapSeconds
    THEN /\ r_pc' = [r_pc EXCEPT ![c] = "gap_sleep"]
         /\ r_wake' = [r_wake EXCEPT ![c] = r_clock + (MinGapSeconds - time_since_last)]
         /\ request_count' = count
         /\ UNCHANGED <<last_request_time, r_admitted>>
    ELSE Admit(c, count)

RateInitOf(cs) ==
    /\ ChainIdle
    /\ AttemptIdle
    /\ HandlerIdle
    /\ LlmIdle
    /\ BundleIdle
    /\ callers = cs
    /\ r_clock = StartClock
    /\ \E g \in {Fresh, Busy} :
          /\ last_request_time = g.last
          /\ request_count = g.count
          /\ request_window_start = g.start
    /\ r_pc = [c \in cs |-> "out"]
    /\ r_now = [c \in cs |-> 0]
    /\ r_wake = [c \in cs |-> 0]
    /\ r_admitted = 0

RateOthers == UNCHANGED <<cvars, avars, hvars, lvars, bvars, callers>>

(* the call up to its first await: now = time.time(), the window is reset  *)
(* after 60 seconds, at the limit the caller sleeps to the end of the      *)
(* window and one second more, else the gap to the last request is tested  *)
Enter(c) ==
    /\ r_pc[c] = "out"
    /\ r_now' = [r_now EXCEPT ![c] = r_clock]
    /\ LET reset == r_clock - request_window_start > WindowSeconds
           count == IF reset THEN 0 ELSE request_count
           start == IF reset THEN r_clock ELSE request_window_start
           wait_time == WindowSeconds - (r_clock - start) + 1
       IN  /\ request_window_start' = start
           /\ IF LimitHit(count) /\ wait_time > 0
              THEN /\ r_pc' = [r_pc EXCEPT ![c] = "limit_sleep"]
                   /\ r_wake' = [r_wake EXCEPT ![c] = r_clock + wait_time]
                   /\ request_count' = count
                   /\ UNCHANGED <<last_request_time, r_admitted>>
              ELSE GapCheck(c, r_clock, count)
    /\ UNCHANGED r_clock
    /\ RateOthers

(* after the sleep at the limit: _request_count = 0, the window starts     *)
(* anew, and the gap is tested with the now read on entry                  *)
WakeAtLimit(c) ==
    /\ r_pc[c] = "limit_sleep"
    /\ SleepOver(c)
    /\ request_window_start' = r_clock
    /\ GapCheck(c, r_now[c], 0)
    /\ UNCHANGED <<r_clock, r_now>>
    /\ RateOthers

(* after the sleep between requests *)
WakeAfterGap(c) ==
    /\ r_pc[c] = "gap_sleep"
    /\ SleepOver(c)
    /\ Admit(c, request_count)
    /\ UNCHANGED <<r_clock, r_now, request_window_start>>
    /\ RateOthers

(* time passes, by a second or by more than a window, while the callers   *)
(* sleep or are busy elsewhere                                             *)
Pass ==
    /\ r_clock < StartClock + Horizon
    /\ \E d \in {1, WindowSeconds + 1} : r_clock' = r_clock + d
    /\ UNCHANGED <<last_request_time, request_count, request_window_start, r_pc,
                   r_now, r_wake, r_admitted>>
    /\ RateOthers

RateNext ==
    \/ \E c \in callers : Enter(c)
    \/ \E c \in callers : WakeAtLimit(c)
    \/ \E c \in callers : WakeAfterGap(c)
    \/ Pass

(* one caller; two callers whose calls interleave at the awaits *)
RateSpec == RateInitOf({1}) /\ [][RateNext]_vars
ConcurrentRateSpec == RateInitOf({1, 2}) /\ [][RateNext]_vars

(* C31: what an earlier question or request wrote does not bear on the     *)
(* timing of a later one: a call of rate_limit_wait goes through as the    *)
(* first call of the process does, without sleeping.                       *)
C31_NoCarriedState == \A c \in callers : r_pc[c] = "out"

(* C31 as amended: the globals of the rate limiter are carried from one    *)
(* call to the next and they alone delay a call: a caller sleeps only when *)
(* the last request was admitted less than two seconds before it entered   *)
(* or the window holds ten requests, and it goes through without sleeping  *)
(* only when the last request is two seconds old or more.                  *)
C31_OnlyLimiterStateCarried ==
    /\ [](\A c \in callers :
            /\ r_pc[c] = "gap_sleep" => r_now[c] - last_request_time < MinGapSeconds
            /\ r_pc[c] = "limit_sleep" => request_count >= MAX_REQUESTS_PER_MINUTE)
    /\ [][\A c \in callers :
            r_pc[c] = "out" /\ r_admitted' # r_admitted =>
                r_clock - last_request_time >= MinGapSeconds]_vars

(* the second call of a process sleeps because of the first *)
C31_Witness ==
    /\ r_pc[1] = "gap_sleep"
    /\ r_admitted = 1
    /\ request_window_start = StartClock
    /\ r_wake[1] = last_request_time + MinGapSeconds

(* C37: with one caller, every return of rate_limit_wait leaves the window *)
(* counter between 1 and the limit, and every admitted request comes two   *)
(* seconds or more after the one before.                                   *)
C37_SingleCallerLimits ==
    /\ [](request_count <= MAX_REQUESTS_PER_MINUTE)
    /\ [][r_admitted' # r_admitted =>
            /\ 1 <= request_count'
            /\ last_request_time' - last_request_time >= MinGapSeconds]_vars

(* the caller was admitted after sleeping to the end of a full window *)
C37_Witness ==
    /\ r_pc[1] = "out"
    /\ r_wake[1] = Busy.start + WindowSeconds + 1
    /\ r_clock >= r_wake[1]
    /\ request_window_start = r_clock
    /\ request_count = 1

(* C38: with two callers whose calls interleave at the awaits, the window  *)
(* counter never passes the limit and every admitted request comes two     *)
(* seconds or more after the one admitted before it.                       *)
C38_ConcurrentCallersLimits ==
    /\ [](request_count \in 0..MAX_REQUESTS_PER_MINUTE)
    /\ [][r_admitted' = r_admitted + 1 =>
            r_clock - last_request_time >= MinGapSeconds]_vars

(* ======================================================================= *)
(* Further properties of solve_single_quiz (AttemptSpec)                   *)
(* ======================================================================= *)

(* the value step 9 found: what step 8 left of the value of steps 4 and 7 *)
Converted ==
    IF accepted # PyNone THEN TypeConvert(expected_answer_type, accepted) ELSE PyNone

(* every resolution path failed and the answer of step 9 was posted *)
FellBack == posted /\ NeedsFallback(Converted)

(* the number re.search finds first in the page text, as step 9 reads it *)
FirstNumberValue ==
    IF HasDot(FirstNumber(page_text)) THEN PyFloat(FirstNumber(page_text))
    ELSE PyInt(IntOf(FirstNumber(page_text)))

(* tags[i] is a heading or emphasised text step 9 may take *)
Prominent(i) == Len(Strip(page_tags[i])) \in 1..99

(* C32 (as stated): when every resolution path has failed, the posted      *)
(* answer is the first numeric literal of the page text, or the sentinel   *)
(* "unknown" when the text has none; heading or bold text is never posted. *)
C32_NumberOrSentinel ==
    FellBack =>
        payload.answer = IF HasNumber(page_text) THEN FirstNumberValue
                         ELSE PyStr(s_unknown)

(* C32 (amended): when every resolution path has failed, the posted answer *)
(* is the first numeric literal of the page text; when the text has none   *)
(* it is the first heading or emphasised text of 1 to 99 characters, and   *)
(* the sentinel "unknown" only when the page has no such text either.      *)
C32_NumberThenProminentThenSentinel ==
    FellBack =>
        /\ HasNumber(page_text) => payload.answer = FirstNumberValue
        /\ ~HasNumber(page_text) =>
              /\ IsStr(payload.answer)
              /\ \A i \in 1..Len(page_tags) :
                    Prominent(i) /\ (\A j \in 1..(i - 1) : ~Prominent(j))
                        => payload.answer.v = Strip(page_tags[i])
              /\ (\A i \in 1..Len(page_tags) : ~Prominent(i))
                    => payload.answer.v = s_unknown

(* the reasoning service gave nothing, the page has a number and a         *)
(* heading, and the number was posted                                      *)
C32_Witness ==
    /\ FellBack
    /\ HasNumber(page_text)
    /\ \E i \in 1..Len(page_tags) : Prominent(i)
    /\ payload.answer = PyInt(7)

(* ======================================================================= *)
(* Further properties of solve_quiz (Spec, FairSpec)                       *)
(* ======================================================================= *)

(* C33: once an attempt on a question has returned a next URL, the chain   *)
(* does not end with status failed on that question, even when the retry   *)
(* that follows returns no next URL: the attempt recorded as number n + 1  *)
(* returned a next URL, so the chain never ends failed after record n + 2  *)
(* as the second attempt on the same question.                             *)
C33_OfferedQuestionNeverFails ==
    \A n \in 0..MaxAttempts :
        [](pc = "handle" /\ Len(history) = n /\ result.url # NoUrl
            => [](~(/\ status = "failed"
                    /\ Len(history) = n + 2
                    /\ history[n + 2].attempt = 2)))

(* C34: current_url changes only to the next URL the attempt just finished *)
(* returned; attempts_on_current is set to 0 exactly in the steps that     *)
(* assign current_url; a retry keeps current_url and the records already   *)
(* in history; attempts_on_current never exceeds max_retries_per_question, *)
(* also not between its increment and its reset.                           *)
C34_ChainFrame ==
    /\ [](/\ attempts_on_current <= max_retries_per_question
          /\ (pc = "handle" => attempts_on_current + 1 <= max_retries_per_question))
    /\ [][/\ (current_url' # current_url =>
                (/\ pc = "handle"
                 /\ result.url # NoUrl
                 /\ current_url' = result.url
                 /\ attempts_on_current' = 0))
           /\ (attempts_on_current' # attempts_on_current =>
                (/\ pc = "handle"
                 /\ IF attempts_on_current' = 0
                    THEN result.url # NoUrl /\ current_url' = result.url
                    ELSE /\ attempts_on_current' = attempts_on_current + 1
                         /\ current_url' = current_url
                         /\ SubSeq(history', 1, Len(history)) = history))
           /\ ((pc = "handle" /\ attempts_on_current = 0 /\ pc' = "loop") =>
                (\/ attempts_on_current' = 1 /\ current_url' = current_url
                 \/ result.url # NoUrl /\ current_url' = result.url))]_vars

(* the second question was retried and then left for the URL its second    *)
(* attempt returned                                                        *)
C34_Witness ==
    /\ pc = "loop"
    /\ Len(history) = 3
    /\ history[2].url = history[3].url
    /\ history[3].attempt = 2
    /\ history[1].url # history[2].url
    /\ attempts_on_current = 0
    /\ current_url = result.url
    /\ current_url # history[3].url

(* C35: within one attempt the answer is posted at most once, only with a  *)
(* submit URL and a payload that passed the size check, and the POST is    *)
(* the last operation of the attempt; a next URL comes only from the       *)
(* response to the POST, so an attempt that did not post returns none.     *)
C35_PostOnceAndLast ==
    /\ [](/\ (posted => a_pc = "done")
          /\ (a_result.has_url => posted /\ a_result.error = "none"))
    /\ [][/\ (posted' # posted =>
                (/\ ~posted
                 /\ a_pc = "submit"
                 /\ submit_url # "none"
                 /\ (found_url \/ mentions_submit)
                 /\ payload'.size <= MaxPayloadBytes))
           /\ (posted => UNCHANGED <<payload, a_result, llm_calls>>)]_vars

(* the answer of the reasoning service was posted, graded wrong, and the   *)
(* response named the next URL                                             *)
C35_Witness ==
    /\ a_pc = "done"
    /\ posted
    /\ llm_calls = 1
    /\ submit_url = "inferred"
    /\ ~a_result.correct
    /\ a_result.has_url

(* C36: every payload posted carries the email and the secret of the       *)
(* request and, as url, the URL of the question being attempted, on every  *)
(* question and every retry of the chain.                                  *)
C36_PayloadIdentity ==
    /\ [](\A i \in 1..Len(sent) : sent[i].email = email /\ sent[i].secret = secret)
    /\ [][/\ (sent' # sent =>
                (/\ pc = "submit"
                 /\ Len(sent') = Len(sent) + 1
                 /\ SubSeq(sent', 1, Len(sent)) = sent
                 /\ sent'[Len(sent')].url = current_url))
           /\ (pc = "submit" /\ result'.error \in {"none", "submission_failed"}
                => Len(sent') = Len(sent) + 1)]_vars

(* the second question was posted twice, after the first was posted once *)
C36_Witness ==
    /\ Len(sent) = 3
    /\ sent[1].url = start_url
    /\ sent[2].url # start_url
    /\ sent[3].url = sent[2].url
    /\ Len(history) = 3
    /\ history[3].attempt = 2

(* ======================================================================= *)
(* Further properties of steps 4 to 7 (BundleSpec)                         *)
(* ======================================================================= *)

====
